---- MODULE Spec2Model ----
(***************************************************************************)
(* Verification model of the ServiceUp dynamic schema / entry subsystem:   *)
(* the repeater engine and its conditional visibility rules (admin         *)
(* FieldInput.jsx), the editor view layout compiler (entry editor page)    *)
(* and the entry read / write routes of the API server.                    *)
(*                                                                         *)
(* Encoding of JavaScript values.  A string is a sequence of one-character *)
(* strings.  A value is a record tagged by t: "undef", "null", "str",      *)
(* "num", "arr" (v: sequence of values) or "obj" (v: function from keys to *)
(* values; an absent key is a key outside the domain).  An optional number *)
(* (null or n) is the sequence <<>> or <<n>>.                              *)
(***************************************************************************)
EXTENDS Integers, Sequences, FiniteSets, TLC

VARIABLES
    cfg,        \* repeater: config of the repeater at each depth (cfg[1] outermost)
    value,      \* repeater: value of the outermost repeater (sequence of rows)
    lastOp,     \* repeater: the row operation invoked last, and its row index
    visRules,   \* visibility: the rules handed to computeSubfieldVisibility
    visRow,     \* visibility: the row they are evaluated on
    visOut,     \* visibility: the visibility map computed, once computed
    layType,    \* layout: the content type handed to buildLayoutFromView
    layView,    \* layout: the editor view config handed to it
    layOut,     \* layout: the compiled sections, once compiled
    entries,    \* server: the rows of the entries table
    req,        \* server: the write requests in flight, with their handler's locals
    readResp,   \* server: the response of the read route called last
    titleIn,    \* title: the template and entry data handed to deriveTitleFromTemplate
    titleOut,   \* title: what the call gave (a title, or an exception), once made
    normIn,     \* normalize: the field list, the payload and the values a canonicalizer fails on
    normOut,    \* normalize: the payloads the first and the second call returned
    viewIn,     \* views: the rows of entry_editor_views and the acting role
    viewOut,    \* views: the row the ORDER BY ... LIMIT 1 query returned, once run
    versions,   \* server: the rows of the entry_versions table
    delReq,     \* server: the delete requests in flight, with their handler's locals
    picker,     \* picker: whether UserRelationField is mounted, and its q, open and onlyActive
    searches,   \* picker: the runs of the search effect, each with its closure (inputs, alive, timer)
    shown       \* picker: the busy, results and err state of the component

repVars == <<cfg, value, lastOp>>
visVars == <<visRules, visRow, visOut>>
layVars == <<layType, layView, layOut>>
srvVars == <<entries, req, readResp>>
titleVars == <<titleIn, titleOut>>
normVars == <<normIn, normOut>>
viewVars == <<viewIn, viewOut>>
delVars == <<versions, delReq>>
pickVars == <<picker, searches, shown>>
vars == <<repVars, visVars, layVars, srvVars, titleVars, normVars, viewVars, delVars, pickVars>>
nonRepVars == <<visVars, layVars, srvVars, titleVars, normVars, viewVars, delVars, pickVars>>
nonVisVars == <<repVars, layVars, srvVars, titleVars, normVars, viewVars, delVars, pickVars>>
nonLayVars == <<repVars, visVars, srvVars, titleVars, normVars, viewVars, delVars, pickVars>>
nonSrvVars == <<repVars, visVars, layVars, titleVars, normVars, viewVars, delVars, pickVars>>
nonTitleVars == <<repVars, visVars, layVars, srvVars, normVars, viewVars, delVars, pickVars>>
nonNormVars == <<repVars, visVars, layVars, srvVars, titleVars, viewVars, delVars, pickVars>>
nonViewVars == <<repVars, visVars, layVars, srvVars, titleVars, normVars, delVars, pickVars>>
nonDelVars == <<repVars, visVars, layVars, srvVars, titleVars, normVars, viewVars, pickVars>>
nonSrvDelVars == <<repVars, visVars, layVars, titleVars, normVars, viewVars, pickVars>>
nonPickVars == <<repVars, visVars, layVars, srvVars, titleVars, normVars, viewVars, delVars>>

(***************************************************************************)
(* Bounds of the model.                                                    *)
(***************************************************************************)
MaxRowsCfg == 2      \* largest minRows / maxRows a repeater is configured with
RowCap == 3          \* rows the model lets an unbounded repeater grow to
NestMaxRows == 1     \* maxRows of every repeater of the nested configuration
MaxDepthCfg == 3     \* largest maxDepth a repeater is configured with
MaxRules == 3        \* longest list of visibility rules
MaxSections == 2     \* most sections of an editor view config
MaxRefs == 1         \* most field references of one section

(***************************************************************************)
(* Strings and JavaScript values.                                          *)
(***************************************************************************)
JUndef == [t |-> "undef"]
JNull == [t |-> "null"]
JStr(s) == [t |-> "str", v |-> s]
JNum(n) == [t |-> "num", v |-> n]
JArr(a) == [t |-> "arr", v |-> a]
JObj(o) == [t |-> "obj", v |-> o]

\* UTF-16 code unit of the characters the model's strings are made of.
CharCode ==
    (" " :> 32) @@ ("!" :> 33) @@ ("\"" :> 34) @@ ("+" :> 43) @@ ("," :> 44) @@
    ("-" :> 45) @@ ("." :> 46) @@ (":" :> 58) @@ ("@" :> 64) @@ ("0" :> 48) @@
    ("1" :> 49) @@ ("2" :> 50) @@ ("3" :> 51) @@ ("4" :> 52) @@ ("5" :> 53) @@
    ("6" :> 54) @@ ("7" :> 55) @@ ("8" :> 56) @@ ("9" :> 57) @@ ("A" :> 65) @@
    ("B" :> 66) @@ ("C" :> 67) @@ ("D" :> 68) @@ ("E" :> 69) @@ ("F" :> 70) @@
    ("G" :> 71) @@ ("H" :> 72) @@ ("I" :> 73) @@ ("J" :> 74) @@ ("K" :> 75) @@
    ("L" :> 76) @@ ("M" :> 77) @@ ("N" :> 78) @@ ("O" :> 79) @@ ("P" :> 80) @@
    ("Q" :> 81) @@ ("R" :> 82) @@ ("S" :> 83) @@ ("T" :> 84) @@ ("U" :> 85) @@
    ("V" :> 86) @@ ("W" :> 87) @@ ("X" :> 88) @@ ("Y" :> 89) @@ ("Z" :> 90) @@
    ("[" :> 91) @@ ("]" :> 93) @@ ("_" :> 95) @@ ("a" :> 97) @@ ("b" :> 98) @@
    ("c" :> 99) @@ ("d" :> 100) @@ ("e" :> 101) @@ ("f" :> 102) @@ ("g" :> 103) @@
    ("h" :> 104) @@ ("i" :> 105) @@ ("j" :> 106) @@ ("k" :> 107) @@ ("l" :> 108) @@
    ("m" :> 109) @@ ("n" :> 110) @@ ("o" :> 111) @@ ("p" :> 112) @@ ("q" :> 113) @@
    ("r" :> 114) @@ ("s" :> 115) @@ ("t" :> 116) @@ ("u" :> 117) @@ ("v" :> 118) @@
    ("w" :> 119) @@ ("x" :> 120) @@ ("y" :> 121) @@ ("z" :> 122) @@ ("{" :> 123) @@
    ("}" :> 125)

CharOf(n) == CHOOSE c \in DOMAIN CharCode : CharCode[c] = n

Digits == {"0", "1", "2", "3", "4", "5", "6", "7", "8", "9"}
DigitVal(c) == CharCode[c] - 48
DigitChar(n) == CHOOSE c \in Digits : DigitVal(c) = n

IsWs(c) == c = " "

\* String.prototype.toLowerCase, character by character.
LowerChar(c) ==
    IF c \in DOMAIN CharCode /\ CharCode[c] >= 65 /\ CharCode[c] <= 90
    THEN CharOf(CharCode[c] + 32) ELSE c
ToLower(s) == [i \in 1..Len(s) |-> LowerChar(s[i])]

RECURSIVE TrimStart(_)
TrimStart(s) == IF s # <<>> /\ IsWs(Head(s)) THEN TrimStart(Tail(s)) ELSE s
RECURSIVE TrimEnd(_)
TrimEnd(s) ==
    IF s # <<>> /\ IsWs(s[Len(s)]) THEN TrimEnd(SubSeq(s, 1, Len(s) - 1)) ELSE s
\* String.prototype.trim
Trim(s) == TrimEnd(TrimStart(s))

\* a < b on strings: comparison of UTF-16 code units, a proper prefix first.
RECURSIVE StrLess(_, _)
StrLess(a, b) ==
    IF b = <<>> THEN FALSE
    ELSE IF a = <<>> THEN TRUE
    ELSE IF CharCode[Head(a)] # CharCode[Head(b)]
         THEN CharCode[Head(a)] < CharCode[Head(b)]
    ELSE StrLess(Tail(a), Tail(b))

\* String.prototype.includes
Includes(s, sub) ==
    \E i \in 0..(Len(s) - Len(sub)) : SubSeq(s, i + 1, i + Len(sub)) = sub

RECURSIVE DecStr(_)
DecStr(n) ==
    IF n < 0 THEN <<"-">> \o DecStr(0 - n)
    ELSE IF n < 10 THEN <<DigitChar(n)>>
    ELSE DecStr(n \div 10) \o <<DigitChar(n % 10)>>

RECURSIVE DigitsVal(_)
DigitsVal(s) ==
    IF s = <<>> THEN 0 ELSE DigitsVal(SubSeq(s, 1, Len(s) - 1)) * 10 + DigitVal(s[Len(s)])

AllDigits(s) == s # <<>> /\ \A i \in 1..Len(s) : s[i] \in Digits

\* Number(<string>): <<>> is NaN.  Exact for the strings of the model, which hold
\* no ".", no exponent or radix prefix and do not spell "Infinity".
ParseNum(s) ==
    LET u == Trim(s) IN
    IF u = <<>> THEN <<0>>
    ELSE IF AllDigits(u) THEN <<DigitsVal(u)>>
    ELSE IF Head(u) = "-" /\ AllDigits(Tail(u)) THEN <<0 - DigitsVal(Tail(u))>>
    ELSE IF Head(u) = "+" /\ AllDigits(Tail(u)) THEN <<DigitsVal(Tail(u))>>
    ELSE <<>>

ObjectObject == <<"[", "o", "b", "j", "e", "c", "t", " ", "O", "b", "j", "e", "c", "t", "]">>

\* String(v)
RECURSIVE StringOf(_)
RECURSIVE JoinComma(_)
JoinComma(a) ==
    IF a = <<>> THEN <<>>
    ELSE LET h == IF Head(a).t \in {"undef", "null"} THEN <<>> ELSE StringOf(Head(a))
         IN IF Len(a) = 1 THEN h ELSE h \o <<",">> \o JoinComma(Tail(a))
StringOf(v) ==
    CASE v.t = "undef" -> <<"u", "n", "d", "e", "f", "i", "n", "e", "d">>
      [] v.t = "null" -> <<"n", "u", "l", "l">>
      [] v.t = "str" -> v.v
      [] v.t = "num" -> DecStr(v.v)
      [] v.t = "arr" -> JoinComma(v.v)
      [] v.t = "obj" -> ObjectObject

\* Number(v): <<>> is NaN.
NumberOf(v) ==
    CASE v.t = "undef" -> <<>>
      [] v.t = "null" -> <<0>>
      [] v.t = "str" -> ParseNum(v.v)
      [] v.t = "num" -> <<v.v>>
      [] v.t = "arr" -> ParseNum(JoinComma(v.v))
      [] v.t = "obj" -> <<>>

\* obj[key] of JavaScript: undefined when the key is absent.
Get(o, k) == IF k \in DOMAIN o THEN o[k] ELSE JUndef

\* { ...base, [key]: val }
Spread(base, k, val) == [x \in (DOMAIN base) \cup {k} |-> IF x = k THEN val ELSE base[x]]

EmptyRow == [x \in {} |-> JUndef]

(***************************************************************************)
(* Conditional visibility rules of a repeater (per row).  A rule is        *)
(* [ifKey, op, value, action, targets]; keys are trimmed strings, "" is a  *)
(* blank key.                                                              *)
(***************************************************************************)
isEmptyValue(v) ==
    CASE v.t \in {"undef", "null"} -> TRUE
      [] v.t = "str" -> Trim(v.v) = <<>>
      [] v.t = "arr" -> Len(v.v) = 0
      [] v.t = "obj" -> DOMAIN v.v = {}
      [] OTHER -> FALSE

\* cmp(a, b): the string forms, "" for null and undefined.
cmp(a) == IF a.t \in {"undef", "null"} THEN <<>> ELSE StringOf(a)

\* Ordering operators that always compare the string forms.
MutEvalRule(row, rule) ==
    LET sa == cmp(Get(row, rule.ifKey))
        sb == cmp(rule.value)
    IN  CASE rule.op = "gt" -> StrLess(sb, sa)
          [] rule.op = "gte" -> ~StrLess(sa, sb)
          [] rule.op = "lt" -> StrLess(sa, sb)
          [] rule.op = "lte" -> ~StrLess(sb, sa)
          [] OTHER -> sa = sb

evalRule(row, rule) ==
    LET actual == IF rule.ifKey # "" THEN Get(row, rule.ifKey) ELSE JUndef
        op == IF rule.op = "" THEN "equals" ELSE rule.op
        sa == cmp(actual)
        sb == cmp(rule.value)
        na == NumberOf(actual)
        nb == NumberOf(rule.value)
        bothNum == na # <<>> /\ nb # <<>>
    IN  CASE op = "truthy" -> ~isEmptyValue(actual)
          [] op = "falsy" -> isEmptyValue(actual)
          [] op = "equals" -> sa = sb
          [] op = "not_equals" -> sa # sb
          [] op = "contains" -> Includes(ToLower(sa), ToLower(sb))
          [] op = "not_contains" -> ~Includes(ToLower(sa), ToLower(sb))
          [] op = "gt" -> IF bothNum THEN na[1] > nb[1] ELSE StrLess(sb, sa)
          [] op = "gte" -> IF bothNum THEN na[1] >= nb[1] ELSE ~StrLess(sa, sb)
          [] op = "lt" -> IF bothNum THEN na[1] < nb[1] ELSE StrLess(sa, sb)
          [] op = "lte" -> IF bothNum THEN na[1] <= nb[1] ELSE ~StrLess(sb, sa)
          [] OTHER -> sa = sb

\* Targets applied with an unknown key standing for every key: a rule naming a
\* key the map does not hold sets the whole map.
MutApplyTargets(vis, targets, action) ==
    LET named == {targets[i] : i \in 1..Len(targets)} \ {""}
    IN [x \in (DOMAIN vis) \cup named |->
            IF x \in named \/ named \ DOMAIN vis # {} THEN action # "hide" ELSE vis[x]]

\* The targets of one matching rule applied to the visibility map.
RECURSIVE ApplyTargets(_, _, _)
ApplyTargets(vis, targets, action) ==
    IF targets = <<>> THEN vis
    ELSE LET k == Head(targets)
             next == IF k = "" THEN vis
                     ELSE [x \in (DOMAIN vis) \cup {k} |->
                             IF x = k THEN action # "hide" ELSE vis[x]]
         IN ApplyTargets(next, Tail(targets), action)

\* The rules applied last to first: the first matching rule would win.
RECURSIVE MutApplyRules(_, _, _)
MutApplyRules(vis, rules, row) ==
    IF rules = <<>> THEN vis
    ELSE LET rest == MutApplyRules(vis, Tail(rules), row)
         IN IF evalRule(row, Head(rules))
            THEN ApplyTargets(rest, Head(rules).targets, Head(rules).action)
            ELSE rest

RECURSIVE ApplyRules(_, _, _)
ApplyRules(vis, rules, row) ==
    IF rules = <<>> THEN vis
    ELSE ApplyRules(
            IF evalRule(row, Head(rules))
            THEN ApplyTargets(vis, Head(rules).targets, Head(rules).action)
            ELSE vis,
            Tail(rules), row)

\* Keys of the declared subfields (blank keys declare nothing).
SubfieldKeys(subfields) ==
    {subfields[i].key : i \in 1..Len(subfields)} \ {""}

computeSubfieldVisibility(subfields, rules, row) ==
    ApplyRules([k \in SubfieldKeys(subfields) |-> TRUE], rules, row)

(***************************************************************************)
(* RepeaterField.  The repeater at depth d is configured by cfg[d]:        *)
(* [minRows, maxRows, maxDepth, subfields, rules]; a subfield is           *)
(* [key, type], and a subfield of type "repeater" of the repeater at depth *)
(* d carries the config cfg[d + 1].                                        *)
(***************************************************************************)
DefaultMaxDepth == 2

\* coerceArray(value).map(r => r && typeof r === "object" ? r : {})
CoerceRows(v) ==
    IF v.t = "arr"
    THEN [i \in 1..Len(v.v) |-> IF v.v[i].t = "obj" THEN v.v[i].v ELSE EmptyRow]
    ELSE <<>>

\* The array of row objects handed to onChange.
ToValue(rows) == JArr([i \in 1..Len(rows) |-> JObj(rows[i])])

maxDepthOf(c) == IF c.maxDepth = <<>> THEN DefaultMaxDepth ELSE c.maxDepth[1]

MutCanNestMore(depth, c) == depth <= maxDepthOf(c)
canNestMore(depth, c) == depth < maxDepthOf(c)

\* What renderSubfieldCell gives for subfield sf of a row of the repeater at
\* `depth`: "null" (nothing), "placeholder" (the inert nesting notice) or "input"
\* (a FieldInput wired to setRow).
renderSubfieldCell(depth, c, sf, row) ==
    IF sf.key = "" THEN "null"
    ELSE IF ~computeSubfieldVisibility(c.subfields, c.rules, row)[sf.key] THEN "null"
    ELSE IF sf.type = "repeater" /\ ~canNestMore(depth, c) THEN "placeholder"
    ELSE "input"

(***************************************************************************)
(* RepeaterField: row operations.  Each takes the rows the component was   *)
(* rendered with and gives the array handed to onChange (the rows          *)
(* themselves where the handler returns early).                            *)
(***************************************************************************)
\* A setRow that clears what the rules of the outermost repeater hide in the row
\* written.
MutSetRowOf(rows, i, k, val) ==
    LET nr == Spread(rows[i], k, val)
        vis == computeSubfieldVisibility(cfg[1].subfields, cfg[1].rules, nr)
    IN [rows EXCEPT ![i] =
            [x \in {y \in DOMAIN nr : y \notin DOMAIN vis \/ vis[y]} |-> nr[x]]]

SetRowOf(rows, i, k, val) ==
    [rows EXCEPT ![i] = Spread(rows[i], k, val)]

MutAddRowOf(rows, maxRows) ==
    IF maxRows # <<>> /\ Len(rows) > maxRows[1] THEN rows
    ELSE Append(rows, EmptyRow)

AddRowOf(rows, maxRows) ==
    IF maxRows # <<>> /\ Len(rows) >= maxRows[1] THEN rows
    ELSE Append(rows, EmptyRow)

RemoveRowOf(rows, minRows, i) ==
    IF minRows # <<>> /\ Len(rows) <= minRows[1] THEN rows
    ELSE [j \in 1..(Len(rows) - 1) |-> IF j < i THEN rows[j] ELSE rows[j + 1]]

\* JSON.parse(JSON.stringify(v)): an undefined property is dropped, an undefined
\* array element becomes null.
RECURSIVE JsonClone(_)
JsonClone(v) ==
    CASE v.t = "arr" ->
            JArr([i \in 1..Len(v.v) |->
                    IF v.v[i].t = "undef" THEN JNull ELSE JsonClone(v.v[i])])
      [] v.t = "obj" ->
            JObj([k \in {x \in DOMAIN v.v : v.v[x].t # "undef"} |-> JsonClone(v.v[k])])
      [] OTHER -> v

\* A duplicateRow that puts the clone at the end of the list.
MutDuplicateRowOf(rows, maxRows, i) ==
    IF maxRows # <<>> /\ Len(rows) >= maxRows[1] THEN rows
    ELSE Append(rows, JsonClone(JObj(rows[i])).v)

DuplicateRowOf(rows, maxRows, i) ==
    IF maxRows # <<>> /\ Len(rows) >= maxRows[1] THEN rows
    ELSE [j \in 1..(Len(rows) + 1) |->
            IF j <= i THEN rows[j]
            ELSE IF j = i + 1 THEN JsonClone(JObj(rows[i])).v
            ELSE rows[j - 1]]

(***************************************************************************)
(* The tree of rendered RepeaterField instances.  An instance is named by  *)
(* the path from the outermost repeater: a sequence of [i, k], row i and   *)
(* subfield key k of the enclosing instance.  A nested instance exists     *)
(* only where renderSubfieldCell gives a FieldInput of type repeater, and  *)
(* is rendered with depth + 1.                                             *)
(***************************************************************************)
NestedKeys(d, row) ==
    IF d >= Len(cfg) THEN {}
    ELSE {cfg[d].subfields[j].key : j \in
            {j \in 1..Len(cfg[d].subfields) :
                /\ cfg[d].subfields[j].type = "repeater"
                /\ renderSubfieldCell(d, cfg[d], cfg[d].subfields[j], row) = "input"}}

RECURSIVE InstancesFrom(_, _)
InstancesFrom(val, d) ==
    LET rows == CoerceRows(val) IN
    {<<>>} \cup
    UNION {UNION {{<<[i |-> i, k |-> k]>> \o q :
                        q \in InstancesFrom(Get(rows[i], k), d + 1)} :
                  k \in NestedKeys(d, rows[i])} :
           i \in 1..Len(rows)}

Instances == InstancesFrom(value, 1)

\* The value prop of the instance at path p.
RECURSIVE ValueAt(_, _)
ValueAt(val, p) ==
    IF p = <<>> THEN val
    ELSE ValueAt(Get(CoerceRows(val)[Head(p).i], Head(p).k), Tail(p))

RowsAt(p) == CoerceRows(ValueAt(value, p))

\* The instance at path p calls onChange(nv): every enclosing instance runs
\* setRow(rowIndex, {[key]: nextVal}) and hands its own new array upwards.
RECURSIVE Propagate(_, _, _)
Propagate(val, p, nv) ==
    IF p = <<>> THEN nv
    ELSE LET rows == CoerceRows(val)
             h == Head(p)
         IN ToValue(SetRowOf(rows, h.i, h.k,
                             Propagate(Get(rows[h.i], h.k), Tail(p), nv)))

\* Text a user types into a text subfield.
TextVals == {<<"1">>}

\* The model lets a repeater without maxRows grow to RowCap rows.
Growable(p) ==
    cfg[Len(p) + 1].maxRows # <<>> \/ Len(RowsAt(p)) < RowCap

addRow ==
    \E p \in Instances :
        /\ Growable(p)
        /\ value' = Propagate(value, p,
                ToValue(AddRowOf(RowsAt(p), cfg[Len(p) + 1].maxRows)))
        /\ lastOp' = [op |-> "addRow", i |-> 0]
        /\ UNCHANGED <<cfg, nonRepVars>>

removeRow ==
    \E p \in Instances : \E i \in 1..Len(RowsAt(p)) :
        /\ value' = Propagate(value, p,
                ToValue(RemoveRowOf(RowsAt(p), cfg[Len(p) + 1].minRows, i)))
        /\ lastOp' = [op |-> "removeRow", i |-> i]
        /\ UNCHANGED <<cfg, nonRepVars>>

duplicateRow ==
    \E p \in Instances : \E i \in 1..Len(RowsAt(p)) :
        /\ Growable(p)
        /\ value' = Propagate(value, p,
                ToValue(DuplicateRowOf(RowsAt(p), cfg[Len(p) + 1].maxRows, i)))
        /\ lastOp' = [op |-> "duplicateRow", i |-> i]
        /\ UNCHANGED <<cfg, nonRepVars>>

\* A text subfield's FieldInput calls onChange(nextVal): setRow(rowIndex, {[key]: nextVal}).
setRow ==
    \E p \in Instances : \E i \in 1..Len(RowsAt(p)) :
      \E j \in 1..Len(cfg[Len(p) + 1].subfields) : \E txt \in TextVals :
        LET c == cfg[Len(p) + 1]
            sf == c.subfields[j]
        IN  /\ sf.type = "text"
            /\ renderSubfieldCell(Len(p) + 1, c, sf, RowsAt(p)[i]) = "input"
            /\ value' = Propagate(value, p,
                    ToValue(SetRowOf(RowsAt(p), i, sf.key, JStr(txt))))
            /\ lastOp' = [op |-> "setRow", i |-> i]
            /\ UNCHANGED <<cfg, nonRepVars>>

\* The parts of the state a specification does not exercise stay idle.
RepIdle == cfg = <<>> /\ value = JUndef /\ lastOp = [op |-> "none", i |-> 0]
VisIdle == visRules = <<>> /\ visRow = EmptyRow /\ visOut = [done |-> FALSE]
LayIdle == layType = [isNull |-> TRUE] /\ layView = [isNull |-> TRUE] /\ layOut = [done |-> FALSE]
NoRead ==
    [done |-> FALSE, route |-> "", status |-> 0, body |-> <<>>, lookup |-> "none",
     queries |-> <<>>]
SrvIdle == entries = {} /\ req = <<>> /\ readResp = NoRead
TitleIdle == titleIn = [template |-> <<>>, data |-> JUndef] /\ titleOut = [done |-> FALSE]
NormIdle == normIn = [fields |-> <<>>, data |-> EmptyRow, bad |-> {}] /\ normOut = [calls |-> 0]
ViewIdle == viewIn = [views |-> {}, role |-> <<>>] /\ viewOut = [done |-> FALSE]
DelIdle == versions = {} /\ delReq = <<>>
PickIdle == picker = [mounted |-> FALSE] /\ searches = <<>> /\ shown = [busy |-> FALSE]

RepNext == addRow \/ removeRow \/ duplicateRow \/ setRow

NoOp == [op |-> "none", i |-> 0]

\* n empty rows.
EmptyRows(n) == ToValue([i \in 1..n |-> EmptyRow])

OptRows == {<<>>} \cup {<<n>> : n \in 0..MaxRowsCfg}

HideBWhenA ==
    <<[ifKey |-> "a", op |-> "truthy", value |-> JUndef, action |-> "hide",
       targets |-> <<"b">>]>>

\* A single repeater with two text subfields, every consistent minRows / maxRows and
\* a stored row list whose length respects them.
RowsInit ==
    /\ \E mn \in OptRows, mx \in OptRows, rl \in {<<>>, HideBWhenA} :
        /\ (mn # <<>> /\ mx # <<>>) => mn[1] <= mx[1]
        /\ cfg = <<[minRows |-> mn, maxRows |-> mx, maxDepth |-> <<>>,
                    subfields |-> <<[key |-> "a", type |-> "text"],
                                    [key |-> "b", type |-> "text"]>>,
                    rules |-> rl]>>
        /\ \E n \in 0..RowCap :
            /\ mn # <<>> => n >= mn[1]
            /\ mx # <<>> => n <= mx[1]
            /\ value = EmptyRows(n)
    /\ lastOp = NoOp
    /\ VisIdle /\ LayIdle /\ SrvIdle /\ TitleIdle /\ NormIdle /\ ViewIdle /\ DelIdle /\ PickIdle

SpecRows == RowsInit /\ [][RepNext]_vars

(***************************************************************************)
(* Claims about the row operations of one repeater (SpecRows).             *)
(***************************************************************************)
RowCount == Len(CoerceRows(value))
AtMaxRows == cfg[1].maxRows # <<>> /\ RowCount >= cfg[1].maxRows[1]
AtMinRows == cfg[1].minRows # <<>> /\ RowCount <= cfg[1].minRows[1]

RowsInRange ==
    /\ cfg[1].minRows # <<>> => RowCount >= cfg[1].minRows[1]
    /\ cfg[1].maxRows # <<>> => RowCount <= cfg[1].maxRows[1]

\* C1: a repeater configured with minRows <= maxRows whose row list starts inside
\* [minRows, maxRows] keeps its number of rows inside [minRows, maxRows] under every
\* sequence of addRow, removeRow and duplicateRow (and field writes); an addRow
\* invoked at maxRows and a removeRow invoked at minRows leave the rows unchanged.
C1_RowsStayInRange ==
    /\ []RowsInRange
    /\ [][(lastOp'.op = "addRow" /\ AtMaxRows) => value' = value]_vars
    /\ [][(lastOp'.op = "removeRow" /\ AtMinRows) => value' = value]_vars

\* addRow was invoked on a repeater pinned at minRows = maxRows > 0 rows.
C1_Witness ==
    /\ cfg[1].maxRows # <<>> /\ cfg[1].maxRows[1] > 0
    /\ cfg[1].minRows = cfg[1].maxRows
    /\ RowCount = cfg[1].maxRows[1]
    /\ lastOp.op = "addRow"

(***************************************************************************)
(* Nested repeaters (SpecNest): three levels of repeater subfields, each   *)
(* level with its own maxDepth (absent, so the default, or 1..MaxDepthCfg).*)
(* The outermost rows also hold a text subfield, and a rule may hide the   *)
(* nested repeater once that text is filled in.                            *)
(***************************************************************************)
OptDepth == {<<>>} \cup {<<n>> : n \in 1..MaxDepthCfg}

HideNWhenA ==
    <<[ifKey |-> "a", op |-> "truthy", value |-> JUndef, action |-> "hide",
       targets |-> <<"n">>]>>

NestInit ==
    /\ \E d1 \in OptDepth, d2 \in OptDepth, rl \in {<<>>, HideNWhenA} :
        cfg = <<[minRows |-> <<>>, maxRows |-> <<NestMaxRows>>, maxDepth |-> d1,
                 subfields |-> <<[key |-> "a", type |-> "text"],
                                 [key |-> "n", type |-> "repeater"]>>,
                 rules |-> rl],
                [minRows |-> <<>>, maxRows |-> <<NestMaxRows>>, maxDepth |-> d2,
                 subfields |-> <<[key |-> "m", type |-> "repeater"]>>,
                 rules |-> <<>>],
                [minRows |-> <<>>, maxRows |-> <<NestMaxRows>>, maxDepth |-> <<>>,
                 subfields |-> <<>>,
                 rules |-> <<>>]>>
    /\ value = EmptyRows(0)
    /\ lastOp = NoOp
    /\ VisIdle /\ LayIdle /\ SrvIdle /\ TitleIdle /\ NormIdle /\ ViewIdle /\ DelIdle /\ PickIdle

SpecNest == NestInit /\ [][RepNext]_vars

\* Every row object held in the data, with the depth of the repeater it is a row of.
RECURSIVE DataRows(_, _)
DataRows(val, d) ==
    LET rows == CoerceRows(val) IN
    UNION {{<<d, rows[i]>>} \cup
           UNION {DataRows(rows[i][k], d + 1) :
                    k \in {k \in DOMAIN rows[i] : rows[i][k].t = "arr"}} :
           i \in 1..Len(rows)}

\* Keys of the subfields of type repeater of the repeater at depth d.
RepeaterKeys(d) ==
    {cfg[d].subfields[j].key : j \in
        {j \in 1..Len(cfg[d].subfields) : cfg[d].subfields[j].type = "repeater"}}

\* C3 as stated: a repeater subfield whose would-be depth (its parent's depth + 1)
\* is >= the parent's maxDepth is inert: no row of the parent holds data under it.
C3_InertAtWouldBeDepth ==
    \A dr \in DataRows(value, 1) :
        dr[1] + 1 >= maxDepthOf(cfg[dr[1]]) =>
            RepeaterKeys(dr[1]) \cap DOMAIN dr[2] = {}

\* C3 as amended: a repeater subfield whose parent's depth is >= the parent's
\* maxDepth (would-be depth > maxDepth) is inert: no RepeaterField is rendered for
\* it, so the rules of the nested repeater are never evaluated, the cell is the
\* placeholder or (hidden by a rule of the parent) nothing, and no row of the parent
\* ever holds data under its key.
C3_InertBeyondMaxDepth ==
    /\ \A dr \in DataRows(value, 1) :
        dr[1] >= maxDepthOf(cfg[dr[1]]) =>
            /\ RepeaterKeys(dr[1]) \cap DOMAIN dr[2] = {}
            /\ \A j \in 1..Len(cfg[dr[1]].subfields) :
                cfg[dr[1]].subfields[j].type = "repeater" =>
                    renderSubfieldCell(dr[1], cfg[dr[1]], cfg[dr[1]].subfields[j], dr[2])
                        \in {"placeholder", "null"}
    /\ \A p \in Instances : \A j \in 1..Len(p) : j < maxDepthOf(cfg[j])

\* A row of a repeater configured with maxDepth = 1 exists and shows the placeholder
\* for its repeater subfield, after a row operation.
C3_Witness ==
    /\ cfg[1].maxDepth = <<1>>
    /\ lastOp.op = "addRow"
    /\ \E dr \in DataRows(value, 1) :
        /\ dr[1] = 1
        /\ renderSubfieldCell(1, cfg[1], cfg[1].subfields[2], dr[2]) = "placeholder"

\* C4: no rendered (editable) repeater is nested deeper than the maxDepth of the
\* outermost repeater, the outermost counting as level 1.
C4_NestingBoundedByOutermost ==
    \A p \in Instances : Len(p) + 1 <= maxDepthOf(cfg[1])

(***************************************************************************)
(* computeSubfieldVisibility on its own (SpecVis): every list of at most   *)
(* MaxRules rules over three declared text subfields a, b, c, on rows      *)
(* whose a is absent, "1" or "2".                                          *)
(***************************************************************************)
VisSubfields ==
    <<[key |-> "a", type |-> "text"], [key |-> "b", type |-> "text"],
      [key |-> "c", type |-> "text"]>>

VisRuleSet ==
    {[ifKey |-> "a", op |-> o, value |-> JStr(<<"1">>), action |-> act, targets |-> tg] :
        o \in {"truthy", "equals"}, act \in {"show", "hide"},
        tg \in {<<"b">>, <<"c", "b">>, <<"zz">>}}

RECURSIVE SeqsUpTo(_, _)
SeqsUpTo(S, n) ==
    IF n = 0 THEN {<<>>}
    ELSE LET shorter == SeqsUpTo(S, n - 1)
         IN shorter \cup {Append(q, x) : q \in {q \in shorter : Len(q) = n - 1}, x \in S}

VisRows ==
    {EmptyRow, [k \in {"a"} |-> JStr(<<"1">>)], [k \in {"a"} |-> JStr(<<"2">>)]}

VisInit ==
    /\ visRules \in SeqsUpTo(VisRuleSet, MaxRules)
    /\ visRow \in VisRows
    /\ visOut = [done |-> FALSE]
    /\ RepIdle /\ LayIdle /\ SrvIdle /\ TitleIdle /\ NormIdle /\ ViewIdle /\ DelIdle /\ PickIdle

visCompute ==
    /\ ~visOut.done
    /\ visOut' = [done |-> TRUE,
                  vis |-> computeSubfieldVisibility(VisSubfields, visRules, visRow)]
    /\ UNCHANGED <<visRules, visRow, nonVisVars>>

VisNext == visCompute

SpecVis == VisInit /\ [][VisNext]_vars

\* Indices of the rules that match the row and list key k among their targets.
MatchingRules(k) ==
    {i \in 1..Len(visRules) :
        /\ evalRule(visRow, visRules[i])
        /\ \E j \in 1..Len(visRules[i].targets) : visRules[i].targets[j] = k}

LastOf(S) == CHOOSE i \in S : \A j \in S : j <= i

\* C2: the final visibility of a declared subfield key is the action of the last
\* rule, in declared order, that matches the row and targets the key (show:
\* visible, hide: hidden); a key no matching rule targets is visible.
C2_LastMatchingRuleWins ==
    visOut.done =>
        \A k \in SubfieldKeys(VisSubfields) :
            IF MatchingRules(k) = {} THEN visOut.vis[k] = TRUE
            ELSE visOut.vis[k] = (visRules[LastOf(MatchingRules(k))].action = "show")

\* Two matching rules with opposite actions target b, the later one showing it again.
C2_Witness ==
    /\ visOut.done
    /\ \E i, j \in MatchingRules("b") :
        /\ i < j /\ j = LastOf(MatchingRules("b"))
        /\ visRules[i].action = "hide" /\ visRules[j].action = "show"
    /\ visOut.vis["b"] = TRUE

(***************************************************************************)
(* Editor view layout compiler: buildLayoutFromView(contentType,           *)
(* viewConfig).  A content type is [isNull |-> TRUE] or [isNull |-> FALSE, *)
(* fields]; a field is [field_key, key, type] with "" for an absent        *)
(* property (a null entry of the list has neither key).  A view config is  *)
(* [isNull |-> TRUE] or [isNull |-> FALSE, sections], sections being <<>>  *)
(* (no array under "sections") or <<list>>.  A section is [id, title,      *)
(* layout, columns, fields]; a field reference is a string ([isStr |->     *)
(* TRUE, key]) or an object with key, field_key, field, id, width, colSpan *)
(* (0: absent) and visible ("absent", "true", "false").                    *)
(***************************************************************************)
\* rawFields.map(...).filter(Boolean): the fields that have a key, key filled in.
RECURSIVE KeyedFields(_)
KeyedFields(raw) ==
    IF raw = <<>> THEN <<>>
    ELSE LET f == Head(raw)
             key == IF f.field_key # "" THEN f.field_key ELSE f.key
         IN IF key = "" THEN KeyedFields(Tail(raw))
            ELSE <<[f EXCEPT !.key = key]>> \o KeyedFields(Tail(raw))

\* fieldsByKey[key] || { key, type: "builtin" }: the last field declared with the key.
ResolveDef(fields, key) ==
    LET hits == {i \in 1..Len(fields) : fields[i].key = key}
    IN IF hits = {} THEN [field_key |-> "", key |-> key, type |-> "builtin"]
       ELSE fields[CHOOSE i \in hits : \A j \in hits : j <= i]

RefKey(r) ==
    IF r.isStr THEN r.key
    ELSE IF r.key # "" THEN r.key
    ELSE IF r.field_key # "" THEN r.field_key
    ELSE IF r.field # "" THEN r.field
    ELSE r.id

RefWidth(r) ==
    IF r.isStr THEN 1
    ELSE IF r.width # 0 THEN r.width
    ELSE IF r.colSpan # 0 THEN r.colSpan
    ELSE 1

RefVisible(r) == r.isStr \/ r.visible # "false"

RECURSIVE SectionRows(_, _)
SectionRows(fields, refs) ==
    IF refs = <<>> THEN <<>>
    ELSE LET r == Head(refs) IN
         IF RefKey(r) = "" \/ ~RefVisible(r) THEN SectionRows(fields, Tail(refs))
         ELSE <<[def |-> ResolveDef(fields, RefKey(r)), width |-> RefWidth(r)]>>
                \o SectionRows(fields, Tail(refs))

LayTwo == <<"t", "w", "o">>
LayThree == <<"t", "h", "r", "e", "e">>

SectionColumns(sec) ==
    LET byLayout == IF Includes(sec.layout, LayThree) THEN 3
                    ELSE IF Includes(sec.layout, LayTwo) THEN 2
                    ELSE 1
    IN IF sec.columns # <<>> /\ sec.columns[1] # 0 THEN sec.columns[1] ELSE byLayout

RECURSIVE CompileSections(_, _)
CompileSections(fields, secs) ==
    IF secs = <<>> THEN <<>>
    ELSE LET sec == Head(secs)
             rows == SectionRows(fields, sec.fields)
         IN (IF rows = <<>> THEN <<>>
             ELSE <<[id |-> IF sec.id = "" THEN "section" ELSE sec.id,
                     title |-> IF sec.title = "" THEN "Section" ELSE sec.title,
                     columns |-> SectionColumns(sec),
                     rows |-> rows]>>)
            \o CompileSections(fields, Tail(secs))

AllFieldsSection(fields) ==
    [id |-> "main", title |-> "Fields", columns |-> 1,
     rows |-> [i \in 1..Len(fields) |-> [def |-> fields[i], width |-> 1]]]

\* The fallback taken whenever nothing was compiled, sections collection or not.
MutLayoutFallback(sections, fields, hasAnyViewSectionsConfig) ==
    IF sections = <<>> /\ fields # <<>>
    THEN <<AllFieldsSection(fields)>>
    ELSE sections

\* Fallback ONLY when there is NO view config at all.
LayoutFallback(sections, fields, hasAnyViewSectionsConfig) ==
    IF sections = <<>> /\ fields # <<>> /\ ~hasAnyViewSectionsConfig
    THEN <<AllFieldsSection(fields)>>
    ELSE sections

buildLayoutFromView(contentType, viewConfig) ==
    IF contentType.isNull THEN <<>>
    ELSE LET fields == KeyedFields(contentType.fields)
             hasAnyViewSectionsConfig == ~viewConfig.isNull /\ viewConfig.sections # <<>>
             sections == IF hasAnyViewSectionsConfig
                         THEN CompileSections(fields, viewConfig.sections[1])
                         ELSE <<>>
         IN LayoutFallback(sections, fields, hasAnyViewSectionsConfig)

(***************************************************************************)
(* The layout compiler on its own (SpecLayout).                            *)
(***************************************************************************)
FieldF1 == [field_key |-> "f1", key |-> "", type |-> "text"]
FieldF2 == [field_key |-> "", key |-> "f2", type |-> "email"]
FieldNoKey == [field_key |-> "", key |-> "", type |-> "text"]

LayTypes ==
    {[isNull |-> TRUE],
     [isNull |-> FALSE, fields |-> <<>>],
     [isNull |-> FALSE, fields |-> <<FieldNoKey>>],
     [isNull |-> FALSE, fields |-> <<FieldF1, FieldNoKey, FieldF2>>]}

LayRefs ==
    {[isStr |-> TRUE, key |-> "f1"],
     [isStr |-> TRUE, key |-> "title"],
     [isStr |-> FALSE, key |-> "", field_key |-> "f2", field |-> "", id |-> "",
      width |-> 0, colSpan |-> 2, visible |-> "false"],
     [isStr |-> FALSE, key |-> "", field_key |-> "", field |-> "", id |-> "",
      width |-> 0, colSpan |-> 0, visible |-> "absent"]}

LaySections ==
    {[id |-> a.id, title |-> "", layout |-> a.layout, columns |-> a.columns, fields |-> f] :
        a \in {[id |-> "", layout |-> <<>>, columns |-> <<>>],
                [id |-> "s1", layout |-> LayTwo, columns |-> <<3>>]},
        f \in SeqsUpTo(LayRefs, MaxRefs)}

LayViews ==
    {[isNull |-> TRUE], [isNull |-> FALSE, sections |-> <<>>]} \cup
    {[isNull |-> FALSE, sections |-> <<secs>>] : secs \in SeqsUpTo(LaySections, MaxSections)}

LayInit ==
    /\ layType \in LayTypes
    /\ layView \in LayViews
    /\ layOut = [done |-> FALSE]
    /\ RepIdle /\ VisIdle /\ SrvIdle /\ TitleIdle /\ NormIdle /\ ViewIdle /\ DelIdle /\ PickIdle

layCompile ==
    /\ ~layOut.done
    /\ layOut' = [done |-> TRUE, sections |-> buildLayoutFromView(layType, layView)]
    /\ UNCHANGED <<layType, layView, nonLayVars>>

LayNext == layCompile

SpecLayout == LayInit /\ [][LayNext]_vars

\* The view configuration has no sections collection at all.
NoSectionsCollection == layView.isNull \/ layView.sections = <<>>

\* A reference that yields a row: it names a key and is not marked not visible.
Usable(r) == RefKey(r) # "" /\ (r.isStr \/ r.visible # "false")

UsableSections ==
    {i \in 1..Len(layView.sections[1]) :
        \E j \in 1..Len(layView.sections[1][i].fields) :
            Usable(layView.sections[1][i].fields[j])}

\* C9: the compiled layout is the synthesized single section "main" holding every
\* declared (keyed) field in declared order exactly when the view configuration has
\* no sections collection and the content type has fields; with a sections
\* collection the layout holds one section per configured section that has a
\* usable row, so it is the empty list when none has (sections: [] included).
C9_FallbackOnlyWithoutSections ==
    (layOut.done /\ ~layType.isNull) =>
        LET fields == KeyedFields(layType.fields) IN
        /\ (layOut.sections = <<AllFieldsSection(fields)>>)
              <=> (NoSectionsCollection /\ fields # <<>>)
        /\ (NoSectionsCollection /\ fields = <<>>) => layOut.sections = <<>>
        /\ ~NoSectionsCollection =>
              /\ Len(layOut.sections) = Cardinality(UsableSections)
              /\ (UsableSections = {} => layOut.sections = <<>>)

\* A content type with fields compiled under sections: [] gives the empty layout.
C9_Witness ==
    /\ layOut.done
    /\ ~layType.isNull /\ KeyedFields(layType.fields) # <<>>
    /\ ~layView.isNull /\ layView.sections = <<(<<>>)>>
    /\ layOut.sections = <<>>

(***************************************************************************)
(* API server: title template helpers.  Entry data is an object whose keys *)
(* are strings (sequences of characters).                                  *)
(***************************************************************************)
\* The pieces of s between occurrences of the character sep (String.prototype.split).
RECURSIVE SplitOn(_, _)
SplitOn(s, sep) ==
    LET hits == {i \in 1..Len(s) : s[i] = sep} IN
    IF hits = {} THEN <<s>>
    ELSE LET i == CHOOSE i \in hits : \A j \in hits : i <= j
         IN <<SubSeq(s, 1, i - 1)>> \o SplitOn(SubSeq(s, i + 1, Len(s)), sep)

RECURSIVE TrimmedNonEmpty(_)
TrimmedNonEmpty(parts) ==
    IF parts = <<>> THEN <<>>
    ELSE (IF Trim(Head(parts)) = <<>> THEN <<>> ELSE <<Trim(Head(parts))>>)
            \o TrimmedNonEmpty(Tail(parts))

\* A built-in function (v: its name), and the TypeError that reading a property
\* of null or undefined raises.
JFn(name) == [t |-> "fn", v |-> name]
JThrow == [t |-> "throw"]

KConstructor == <<"c", "o", "n", "s", "t", "r", "u", "c", "t", "o", "r">>
KLength == <<"l", "e", "n", "g", "t", "h">>
KName == <<"n", "a", "m", "e">>

\* What cur[p] finds on the prototype chain when cur has no own property p.  Of
\* the inherited members only constructor is modelled; the paths the model is
\* run on name no other.
Inherited(cur, p) ==
    IF p # KConstructor THEN JUndef
    ELSE JFn(CASE cur.t = "obj" -> <<"O", "b", "j", "e", "c", "t">>
               [] cur.t = "arr" -> <<"A", "r", "r", "a", "y">>
               [] cur.t = "str" -> <<"S", "t", "r", "i", "n", "g">>
               [] cur.t = "num" -> <<"N", "u", "m", "b", "e", "r">>
               [] cur.t = "bool" -> <<"B", "o", "o", "l", "e", "a", "n">>
               [] OTHER -> <<"F", "u", "n", "c", "t", "i", "o", "n">>)

IsIndexOf(p, n) == AllDigits(p) /\ DecStr(DigitsVal(p)) = p /\ DigitsVal(p) < n

\* cur[p]: an own key of an object, an index or the length of an array or of a
\* string, the name or length of a function, else an inherited member.
Prop(cur, p) ==
    CASE cur.t \in {"undef", "null", "throw"} -> JThrow
      [] cur.t = "obj" -> IF p \in DOMAIN cur.v THEN cur.v[p] ELSE Inherited(cur, p)
      [] cur.t = "arr" ->
            IF IsIndexOf(p, Len(cur.v)) THEN cur.v[DigitsVal(p) + 1]
            ELSE IF p = KLength THEN JNum(Len(cur.v))
            ELSE Inherited(cur, p)
      [] cur.t = "str" ->
            IF IsIndexOf(p, Len(cur.v)) THEN JStr(<<cur.v[DigitsVal(p) + 1]>>)
            ELSE IF p = KLength THEN JNum(Len(cur.v))
            ELSE Inherited(cur, p)
      [] cur.t = "fn" ->
            IF p = KName THEN JStr(cur.v)
            ELSE IF p = KLength THEN JNum(1)
            ELSE Inherited(cur, p)
      [] OTHER -> Inherited(cur, p)

RECURSIVE Walk(_, _)
Walk(cur, parts) ==
    IF parts = <<>> THEN cur
    ELSE IF cur.t \in {"undef", "null"} THEN JUndef
    ELSE Walk(Prop(cur, Head(parts)), Tail(parts))

getByPath(obj, path) ==
    IF path = <<>> THEN JUndef
    ELSE Walk(obj, TrimmedNonEmpty(SplitOn(path, ".")))

\* value.first || '' and its like: the property when it is a non-empty string.
NamePart(o, k) ==
    IF k \in DOMAIN o /\ o[k].t = "str" /\ o[k].v # <<>> THEN o[k].v ELSE <<>>

KFirst == <<"f", "i", "r", "s", "t">>
KLast == <<"l", "a", "s", "t">>
KMiddle == <<"m", "i", "d", "d", "l", "e">>
KTitle == <<"t", "i", "t", "l", "e">>
KSuffix == <<"s", "u", "f", "f", "i", "x">>

RECURSIVE JoinWith(_, _)
JoinWith(parts, sep) ==
    IF parts = <<>> THEN <<>>
    ELSE IF Len(parts) = 1 THEN Head(parts)
    ELSE Head(parts) \o sep \o JoinWith(Tail(parts), sep)

RECURSIVE NonEmptyOnly(_)
NonEmptyOnly(parts) ==
    IF parts = <<>> THEN <<>>
    ELSE (IF Head(parts) = <<>> THEN <<>> ELSE <<Head(parts)>>) \o NonEmptyOnly(Tail(parts))

\* JSON.stringify of the model's values; an object of the model that reaches it
\* has at most one key, so key order does not arise.
RECURSIVE JsonStringify(_)
JsonStringify(v) ==
    CASE v.t = "str" -> <<"\"">> \o v.v \o <<"\"">>
      [] v.t = "num" -> DecStr(v.v)
      [] v.t = "arr" ->
            <<"[">> \o JoinWith([i \in 1..Len(v.v) |-> JsonStringify(v.v[i])], <<",">>)
                \o <<"]">>
      [] v.t = "obj" ->
            <<"{">> \o
            (IF DOMAIN v.v = {} THEN <<>>
             ELSE LET k == CHOOSE k \in DOMAIN v.v : TRUE
                  IN <<"\"">> \o k \o <<"\"", ":">> \o JsonStringify(v.v[k]))
            \o <<"}">>
      [] v.t = "bool" -> IF v.v THEN <<"t", "r", "u", "e">> ELSE <<"f", "a", "l", "s", "e">>
      [] OTHER -> <<"n", "u", "l", "l">>

\* String(f) of a built-in function.
FnSource(f) ==
    <<"f", "u", "n", "c", "t", "i", "o", "n", " ">> \o f.v
        \o <<"(", ")", " ", "{", " ", "[", "n", "a", "t", "i", "v", "e", " ",
             "c", "o", "d", "e", "]", " ", "}">>

RECURSIVE asPrettyInline(_)
asPrettyInline(val) ==
    CASE val.t \in {"undef", "null"} -> <<>>
      [] val.t \in {"str", "num"} -> StringOf(val)
      [] val.t = "bool" -> IF val.v THEN <<"t", "r", "u", "e">> ELSE <<"f", "a", "l", "s", "e">>
      [] val.t = "fn" -> FnSource(val)
      [] val.t = "arr" ->
            JoinWith(NonEmptyOnly([i \in 1..Len(val.v) |-> asPrettyInline(val.v[i])]),
                     <<",", " ">>)
      [] val.t = "obj" ->
            LET o == val.v
                looksLikeName == DOMAIN o \cap {KFirst, KLast, KMiddle, KTitle, KSuffix} # {}
                bits == NonEmptyOnly(<<NamePart(o, KTitle), NamePart(o, KFirst),
                                       NamePart(o, KMiddle), NamePart(o, KLast)>>)
                out == Trim(JoinWith(bits, <<" ">>))
                suffix == NamePart(o, KSuffix)
            IN IF looksLikeName
               THEN (IF suffix # <<>> THEN Trim(out \o <<" ">> \o suffix) ELSE out)
               ELSE JsonStringify(val)

\* The substituted text as it is, its runs of whitespace kept.
MutCollapseWs(s) == s

\* out.replace(/\s+/g, ' '): every run of whitespace becomes one space.
RECURSIVE CollapseWs(_)
CollapseWs(s) ==
    IF s = <<>> THEN <<>>
    ELSE IF IsWs(Head(s))
         THEN <<" ">> \o CollapseWs(TrimStart(s))
    ELSE <<Head(s)>> \o CollapseWs(Tail(s))

\* The mark an exception raised inside the replacer leaves in place of the text;
\* it is no character, so no string holds it.
Raised == "TypeError"

\* tpl.replace(/\{([^}]+)\}/g, ...): each "{", one or more characters other than
\* "}", "}" is replaced by the pretty form of the value at that path.
RECURSIVE ReplaceTokens(_, _)
ReplaceTokens(tpl, data) ==
    IF tpl = <<>> THEN <<>>
    ELSE IF Head(tpl) # "{" THEN <<Head(tpl)>> \o ReplaceTokens(Tail(tpl), data)
    ELSE LET closes == {i \in 2..Len(tpl) : tpl[i] = "}"} IN
         IF closes = {} THEN tpl
         ELSE LET j == CHOOSE i \in closes : \A k \in closes : i <= k IN
              IF j = 2 THEN <<"{">> \o ReplaceTokens(Tail(tpl), data)
              ELSE LET token == Trim(SubSeq(tpl, 2, j - 1))
                       val == getByPath(data, token)
                       sub == IF token = <<>> THEN <<>>
                              ELSE IF val.t = "throw" THEN <<Raised>>
                              ELSE asPrettyInline(val)
                   IN sub \o ReplaceTokens(SubSeq(tpl, j + 1, Len(tpl)), data)

deriveTitleFromTemplate(template, data) ==
    IF Trim(template) = <<>> THEN <<>>
    ELSE Trim(CollapseWs(ReplaceTokens(template, data)))

(***************************************************************************)
(* API server: slugify, isUuid and normalizeEntryData.                     *)
(***************************************************************************)
IsSlugChar(c) ==
    c \in Digits \/ (c \in DOMAIN CharCode /\ CharCode[c] >= 97 /\ CharCode[c] <= 122)

\* A replacement of every character outside a-z0-9, one hyphen each.
RECURSIVE MutHyphenate(_)
MutHyphenate(s) ==
    IF s = <<>> THEN <<>>
    ELSE <<IF IsSlugChar(Head(s)) THEN Head(s) ELSE "-">> \o MutHyphenate(Tail(s))

\* .replace(/[^a-z0-9]+/g, '-')
RECURSIVE Hyphenate(_)
RECURSIVE SkipNonSlug(_)
SkipNonSlug(s) == IF s # <<>> /\ ~IsSlugChar(Head(s)) THEN SkipNonSlug(Tail(s)) ELSE s
Hyphenate(s) ==
    IF s = <<>> THEN <<>>
    ELSE IF IsSlugChar(Head(s)) THEN <<Head(s)>> \o Hyphenate(Tail(s))
    ELSE <<"-">> \o Hyphenate(SkipNonSlug(s))

\* .replace(/^-+|-+$/g, '')
RECURSIVE StripHyphens(_)
StripHyphens(s) ==
    IF s # <<>> /\ Head(s) = "-" THEN StripHyphens(Tail(s))
    ELSE IF s # <<>> /\ s[Len(s)] = "-" THEN StripHyphens(SubSeq(s, 1, Len(s) - 1))
    ELSE s

slugify(str) == StripHyphens(Hyphenate(ToLower(Trim(str))))

IsHex(c) == c \in Digits \cup {"a", "b", "c", "d", "e", "f", "A", "B", "C", "D", "E", "F"}

\* /^[0-9a-f]{8}-[0-9a-f]{4}-[0-9a-f]{4}-[0-9a-f]{4}-[0-9a-f]{12}$/i on the
\* trimmed string.
isUuid(s) ==
    LET u == Trim(s) IN
    /\ Len(u) = 36
    /\ \A i \in 1..36 : IF i \in {9, 14, 19, 24} THEN u[i] = "-" ELSE IsHex(u[i])

\* The identifier made of one hexadecimal character.
Uuid(c) ==
    [i \in 1..36 |-> IF i \in {9, 14, 19, 24} THEN "-" ELSE c]

\* c.toUpperCase() of a lower-case letter.
UpperChar(c) ==
    IF c \in DOMAIN CharCode /\ CharCode[c] >= 97 /\ CharCode[c] <= 122
    THEN CharOf(CharCode[c] - 32) ELSE c
IsLowerLetter(c) == c \in DOMAIN CharCode /\ CharCode[c] >= 97 /\ CharCode[c] <= 122

\* snake.replace(/_([a-z])/, ...) without the g flag: only the first underscore
\* and letter are replaced.
RECURSIVE MutCamel(_)
MutCamel(s) ==
    IF s = <<>> THEN <<>>
    ELSE IF Head(s) = "_" /\ Len(s) >= 2 /\ IsLowerLetter(s[2])
         THEN <<UpperChar(s[2])>> \o SubSeq(s, 3, Len(s))
    ELSE <<Head(s)>> \o MutCamel(Tail(s))

\* snake.replace(/_([a-z])/g, (_, c) => c.toUpperCase())
RECURSIVE Camel(_)
Camel(s) ==
    IF s = <<>> THEN <<>>
    ELSE IF Head(s) = "_" /\ Len(s) >= 2 /\ IsLowerLetter(s[2])
         THEN <<UpperChar(s[2])>> \o Camel(SubSeq(s, 3, Len(s)))
    ELSE <<Head(s)>> \o Camel(Tail(s))

\* delete out[camel]
Without(o, k) == [x \in (DOMAIN o) \ {k} |-> o[x]]

\* First loop of normalizeEntryData: camelCase alias to canonical key.
RECURSIVE MoveAliases(_, _)
MoveAliases(fieldDefs, out) ==
    IF fieldDefs = <<>> THEN out
    ELSE LET snake == Head(fieldDefs).key
             camel == Camel(snake)
             moved == IF Get(out, camel).t # "undef" /\ Get(out, snake).t = "undef"
                      THEN Without(Spread(out, snake, out[camel]), camel)
                      ELSE out
         IN MoveAliases(Tail(fieldDefs), moved)

\* normalizeEmail of lib/fieldUtils.js: a string is trimmed and lower-cased, any
\* other value is handed back.  It may throw.
normalizeEmail(v) == IF v.t = "str" THEN JStr(ToLower(Trim(v.v))) ELSE v

\* The switch on the field type; email is the only typed field the schema of the
\* model declares.
Canonical(t, v) == IF t = "email" THEN normalizeEmail(v) ELSE v

\* out[k] = v; a key holding undefined is not serialized into the stored JSON.
Assign(o, k, v) == IF v.t = "undef" THEN Without(o, k) ELSE Spread(o, k, v)

\* Second loop of normalizeEntryData: canonical form of the typed fields.
RECURSIVE Canonicalize(_, _)
Canonicalize(fieldDefs, out) ==
    IF fieldDefs = <<>> THEN out
    ELSE LET f == Head(fieldDefs)
             next == IF f.type \in {"email", "phone", "url", "address"}
                     THEN Assign(out, f.key, Canonical(f.type, Get(out, f.key)))
                     ELSE out
         IN Canonicalize(Tail(fieldDefs), next)

\* A catch that returns an empty payload.
MutNormalizeEntryData(fieldDefs, dataIn, canonOk) ==
    IF canonOk THEN Canonicalize(fieldDefs, MoveAliases(fieldDefs, dataIn)) ELSE EmptyRow

\* canonOk = FALSE: a canonicalizer throws and the catch returns dataIn.
normalizeEntryData(fieldDefs, dataIn, canonOk) ==
    LET hasTyped == \E i \in 1..Len(fieldDefs) :
                        fieldDefs[i].type \in {"email", "phone", "url", "address"}
    IN IF hasTyped /\ ~canonOk THEN dataIn
       ELSE Canonicalize(fieldDefs, MoveAliases(fieldDefs, dataIn))

(***************************************************************************)
(* API server: the tables the entry routes only read (content_types,       *)
(* content_fields, entry_editor_views, users).                             *)
(***************************************************************************)
JBool(b) == [t |-> "bool", v |-> b]

\* !!v of a value that came out of JSON.
Truthy(v) ==
    CASE v.t \in {"undef", "null"} -> FALSE
      [] v.t = "str" -> v.v # <<>>
      [] v.t = "num" -> v.v # 0
      [] v.t = "bool" -> v.v
      [] OTHER -> TRUE

\* a || b
OrElse(a, b) == IF Truthy(a) THEN a ELSE b

ToUpper(s) == [i \in 1..Len(s) |-> UpperChar(s[i])]

EmptyObj == [x \in {} |-> JUndef]

KFn == <<"f", "_", "n">>
KOwner == <<"o", "w", "n", "e", "r">>
KEm == <<"e", "m">>

ContentTypes ==
    { [id |-> "ct1", slug |-> "people"], [id |-> "ct2", slug |-> "notes"] }

NoConfig == [multiple |-> JUndef, display |-> JUndef, roleFilter |-> JUndef,
             onlyActive |-> JUndef]

ContentFields ==
    << [content_type_id |-> "ct1", key |-> KFn, type |-> "text", config |-> NoConfig],
       [content_type_id |-> "ct1", key |-> KOwner, type |-> "relation_user",
        config |-> [NoConfig EXCEPT !.multiple = JBool(TRUE)]],
       [content_type_id |-> "ct1", key |-> KEm, type |-> "email", config |-> NoConfig],
       [content_type_id |-> "ct2", key |-> KFn, type |-> "text", config |-> NoConfig] >>

EmptyCore == [titleMode |-> JUndef, titleTemplate |-> JUndef,
              autoSlugFromTitleIfEmpty |-> JUndef]

EditorViews ==
    { [id |-> 1, content_type_id |-> "ct1", is_default |-> FALSE,
       updated_at |-> <<2>>, created_at |-> <<1>>,
       config |-> [default_roles |-> {<<"A", "D", "M", "I", "N">>},
                   core |-> [titleMode |-> JStr(<<"T", "e", "m", "p", "l", "a", "t", "e">>),
                             titleTemplate |-> JStr(<<"{", "f", "_", "n", "}">>),
                             autoSlugFromTitleIfEmpty |-> JBool(TRUE)]]],
      [id |-> 2, content_type_id |-> "ct1", is_default |-> TRUE,
       updated_at |-> <<>>, created_at |-> <<1>>,
       config |-> [default_roles |-> {},
                   core |-> [titleMode |-> JStr(<<"m", "a", "n", "u", "a", "l">>),
                             titleTemplate |-> JStr(<<"{", "f", "_", "n", "}">>),
                             autoSlugFromTitleIfEmpty |-> JBool(FALSE)]]],
      [id |-> 3, content_type_id |-> "ct2", is_default |-> TRUE,
       updated_at |-> <<3>>, created_at |-> <<1>>,
       config |-> [default_roles |-> {},
                   core |-> [EmptyCore EXCEPT !.autoSlugFromTitleIfEmpty = JBool(FALSE)]]],
      [id |-> 4, content_type_id |-> "ct2", is_default |-> TRUE,
       updated_at |-> <<>>, created_at |-> <<5>>,
       config |-> [default_roles |-> {},
                   core |-> [titleMode |-> JStr(<<"t", "e", "m", "p", "l", "a", "t", "e">>),
                             titleTemplate |-> JStr(<<"{", "e", "m", "}">>),
                             autoSlugFromTitleIfEmpty |-> JUndef]]] }

Users ==
    { [id |-> Uuid("a"), email |-> <<"a", "@", "x">>, name |-> <<"A", "d", "a">>, role |-> <<"A", "D", "M", "I", "N">>,
       status |-> <<"a", "c", "t", "i", "v", "e">>] }

\* ORDER BY ... DESC NULLS LAST of a timestamp: NULL sorts after every value.
TsKey(ts) == IF ts = <<>> THEN -1 ELSE ts[1]

RECURSIVE LexGreater(_, _)
LexGreater(a, b) ==
    IF a = <<>> THEN FALSE
    ELSE IF Head(a) # Head(b) THEN Head(a) > Head(b)
    ELSE LexGreater(Tail(a), Tail(b))

\* An ORDER BY that puts is_default before the role match.
MutViewRank(v, role) ==
    << IF v.is_default THEN 1 ELSE 0,
       IF role \in v.config.default_roles THEN 1 ELSE 0,
       TsKey(v.updated_at), TsKey(v.created_at), 0 - v.id >>

\* The ORDER BY of getEffectiveEditorCoreForType: role match, is_default,
\* updated_at DESC, created_at DESC, id ASC.
ViewRank(v, role) ==
    << IF role \in v.config.default_roles THEN 1 ELSE 0,
       IF v.is_default THEN 1 ELSE 0,
       TsKey(v.updated_at), TsKey(v.created_at), 0 - v.id >>

\* The rows the query returns from a table of views: WHERE content_type_id = $1
\* ORDER BY ... LIMIT 1.
EffectiveViewRows(views, contentTypeId, roleUpper) ==
    LET rows == {v \in views : v.content_type_id = contentTypeId} IN
    {v \in rows :
        \A w \in rows \ {v} : LexGreater(ViewRank(v, roleUpper), ViewRank(w, roleUpper))}

\* The core of the view a table of views gives; queryOk = FALSE: the query fails
\* and the catch returns {}.
EffectiveCoreIn(views, contentTypeId, roleUpper, queryOk) ==
    LET rows == EffectiveViewRows(views, contentTypeId, roleUpper) IN
    IF ~queryOk \/ rows = {} THEN EmptyCore
    ELSE (CHOOSE v \in rows : TRUE).config.core

getEffectiveEditorCoreForType(contentTypeId, roleUpper, queryOk) ==
    EffectiveCoreIn(EditorViews, contentTypeId, roleUpper, queryOk)

(***************************************************************************)
(* API server: relation resolution (attachResolvedUsersToEntries).  A      *)
(* returned entry is [entry, resolved]; resolved.present tells whether the *)
(* entry carries _resolved.                                                *)
(***************************************************************************)
NoResolved == [present |-> FALSE, userFields |-> <<>>, usersById |-> <<>>]

AsReturned(e) == [entry |-> e, resolved |-> NoResolved]

isUuidValue(v) == isUuid(StringOf(OrElse(v, JStr(<<>>))))

UserFieldConfig(c) ==
    [multiple |-> Truthy(c.multiple),
     display |-> OrElse(c.display, JStr(<<"n", "a", "m", "e", "_", "e", "m", "a", "i", "l">>)),
     roleFilter |-> OrElse(c.roleFilter, JStr(<<>>)),
     onlyActive |-> IF c.onlyActive.t = "undef" THEN TRUE ELSE Truthy(c.onlyActive)]

\* The identifiers an entry references by scalar values only.
MutRefIds(data, fieldKeys) ==
    UNION { LET v == Get(data, k) IN
            IF v.t # "arr" /\ isUuidValue(v) THEN {StringOf(v)} ELSE {}
          : k \in fieldKeys }

\* The identifiers one entry references under the user fields.
RefIds(data, fieldKeys) ==
    UNION { LET v == Get(data, k) IN
            IF v.t = "arr"
            THEN {StringOf(v.v[i]) : i \in {j \in 1..Len(v.v) : isUuidValue(v.v[j])}}
            ELSE IF isUuidValue(v) THEN {StringOf(v)} ELSE {}
          : k \in fieldKeys }

\* usersOk = FALSE: the query on public.users fails and the function throws.
\* lookup tells what became of that query: "none" (not issued), "ok", "failed";
\* queries lists the identifier sets of the queries issued on public.users.
attachResolvedUsersToEntries(typeId, list, usersOk) ==
    LET userFieldRows == SelectSeq(ContentFields,
                            LAMBDA f : f.content_type_id = typeId /\ f.type = "relation_user")
        keys == {userFieldRows[i].key : i \in 1..Len(userFieldRows)}
        userFields == [k \in keys |->
                          UserFieldConfig(userFieldRows[CHOOSE i \in 1..Len(userFieldRows) :
                              /\ userFieldRows[i].key = k
                              /\ \A j \in 1..Len(userFieldRows) :
                                    userFieldRows[j].key = k => j <= i].config)]
        ids == UNION {RefIds(list[i].entry.data, keys) : i \in 1..Len(list)}
        usersById == [id \in {u.id : u \in Users} \cap ids |->
                          CHOOSE u \in Users : u.id = id]
        with(byId) == [i \in 1..Len(list) |->
                          [list[i] EXCEPT !.resolved =
                              [present |-> TRUE, userFields |-> userFields,
                               usersById |-> byId]]]
    IN IF list = <<>> \/ userFieldRows = <<>>
       THEN [threw |-> FALSE, entries |-> list, lookup |-> "none", queries |-> <<>>]
       ELSE IF ids = {}
       THEN [threw |-> FALSE, entries |-> with(<<>>), lookup |-> "none", queries |-> <<>>]
       ELSE IF ~usersOk
       THEN [threw |-> TRUE, entries |-> <<>>, lookup |-> "failed", queries |-> <<ids>>]
       ELSE [threw |-> FALSE, entries |-> with(usersById), lookup |-> "ok",
             queries |-> <<ids>>]

(***************************************************************************)
(* API server: read routes.                                                *)
(***************************************************************************)
\* ORDER BY created_at DESC
RECURSIVE ByCreatedDesc(_)
ByCreatedDesc(S) ==
    IF S = {} THEN <<>>
    ELSE LET e == CHOOSE x \in S : \A y \in S : y.created_at <= x.created_at
         IN <<e>> \o ByCreatedDesc(S \ {e})

TypeRows(slug) == {ct \in ContentTypes : ct.slug = slug}

\* WHERE id = $1 / WHERE slug = $1, AND content_type_id = $2
EntryRows(id, typeId) ==
    {e \in entries : /\ e.content_type_id = typeId
                     /\ IF isUuid(id) THEN e.id = Trim(id) ELSE e.slug = id}

ReadAnswer(route, okStatus, att) ==
    IF att.threw
    THEN [done |-> TRUE, route |-> route, status |-> 500, body |-> <<>>,
          lookup |-> att.lookup, queries |-> att.queries]
    ELSE [done |-> TRUE, route |-> route, status |-> okStatus, body |-> att.entries,
          lookup |-> att.lookup, queries |-> att.queries]

ReadTypeSlugs == {"people", "notes", "zz"}
ReadIds == {Uuid("1"), Uuid("2"), Uuid("4"), <<"s">>, <<"y">>, <<"z", "z">>}

\* GET /api/content/:slug
listEntries ==
    \E slug \in ReadTypeSlugs, usersOk \in BOOLEAN :
        /\ readResp' =
              IF TypeRows(slug) = {}
              THEN [NoRead EXCEPT !.done = TRUE, !.route = "list", !.status = 404]
              ELSE LET typeId == (CHOOSE ct \in TypeRows(slug) : TRUE).id
                       rows == ByCreatedDesc({e \in entries : e.content_type_id = typeId})
                   IN ReadAnswer("list", 200,
                        attachResolvedUsersToEntries(typeId,
                            [i \in 1..Len(rows) |-> AsReturned(rows[i])], usersOk))
        /\ UNCHANGED <<entries, req, nonSrvVars>>

\* GET /api/content/:slug/:id
getEntry ==
    \E typeSlug \in ReadTypeSlugs, id \in ReadIds, usersOk \in BOOLEAN :
        /\ readResp' =
              IF TypeRows(typeSlug) = {}
              THEN [NoRead EXCEPT !.done = TRUE, !.route = "get", !.status = 404]
              ELSE LET typeId == (CHOOSE ct \in TypeRows(typeSlug) : TRUE).id
                       rows == EntryRows(id, typeId)
                   IN IF rows = {}
                      THEN [NoRead EXCEPT !.done = TRUE, !.route = "get", !.status = 404]
                      ELSE ReadAnswer("get", 200,
                             attachResolvedUsersToEntries(typeId,
                                <<AsReturned(CHOOSE e \in rows : TRUE)>>, usersOk))
        /\ UNCHANGED <<entries, req, nonSrvVars>>

ReadNext == listEntries \/ getEntry

Entry(id, typeId, title, slug, data, at) ==
    [id |-> id, content_type_id |-> typeId, title |-> title, slug |-> slug,
     status |-> <<"d", "r", "a", "f", "t">>, data |-> data, created_at |-> at, updated_at |-> at]

\* Rows of the entries table: a reference to a user, references to no user, no
\* reference, and an entry of the content type without user fields.
E1 == Entry(Uuid("1"), "ct1", <<"X">>, <<"s">>, (KOwner :> JStr(Uuid("a"))), 1)
E2 ==
    Entry(Uuid("2"), "ct1", <<"B", "o">>, <<"x">>,
          (KFn :> JStr(<<"B", "o">>)) @@ (KOwner :> JArr(<<JStr(Uuid("b")), JStr(<<"x">>)>>)), 2)
E3 == Entry(Uuid("3"), "ct1", <<"X">>, <<"y">>, EmptyObj, 3)
E4 == Entry(Uuid("4"), "ct2", <<"X">>, <<"s">>, (KFn :> JStr(<<"B", "o">>)), 4)

ReadInit ==
    /\ entries \in SUBSET {E1, E2, E3, E4}
    /\ req = <<>>
    /\ readResp = NoRead
    /\ RepIdle /\ VisIdle /\ LayIdle /\ TitleIdle /\ NormIdle /\ ViewIdle /\ DelIdle /\ PickIdle

SpecRead == ReadInit /\ [][ReadNext]_vars

\* C5: every entry a list or detail fetch returns carries a resolution context
\* (_resolved with userFields and usersById), also when the content type has no
\* relation_user fields and when nothing is referenced or matched.
C5_ResolvedAlwaysPresent ==
    (readResp.done /\ readResp.status = 200) =>
        \A i \in 1..Len(readResp.body) : readResp.body[i].resolved.present

\* C6: when the batched user lookup fails the read still answers 200 and every
\* entry carries an empty resolution context.
C6_LookupFailureDegrades ==
    (readResp.done /\ readResp.lookup = "failed") =>
        /\ readResp.status = 200
        /\ readResp.body # <<>>
        /\ \A i \in 1..Len(readResp.body) :
              /\ readResp.body[i].resolved.present
              /\ DOMAIN readResp.body[i].resolved.usersById = {}

(***************************************************************************)
(* API server: write routes (POST /api/content/:slug and                   *)
(* PUT /api/content/:slug/:id).  A request in flight is a record of the    *)
(* handler's locals; pc is the await it has reached.                       *)
(***************************************************************************)
KTemplate == <<"t", "e", "m", "p", "l", "a", "t", "e">>

TemplateMode(core) ==
    ToLower(StringOf(OrElse(core.titleMode, JStr(<<>>)))) = KTemplate

\* A template step that yields to the client: the derived title is used only when
\* the request carries no title of its own.
MutEffectiveTitle(core, title, data) ==
    IF title.t = "str" /\ Trim(title.v) # <<>> THEN title
    ELSE JStr(deriveTitleFromTemplate(StringOf(OrElse(core.titleTemplate, JStr(<<>>))),
                                      OrElse(data, JObj(EmptyObj))))

\* The title after the template step of the handler (if (derived) title = derived):
\* the client title is kept when the mode is not template or nothing is derived.
EffectiveTitle(core, title, data) ==
    IF TemplateMode(core)
    THEN LET derived ==
                deriveTitleFromTemplate(StringOf(OrElse(core.titleTemplate, JStr(<<>>))),
                                        OrElse(data, JObj(EmptyObj)))
         IN IF derived # <<>> THEN JStr(derived) ELSE title
    ELSE title

\* A title test without trim: any non-empty string passes.
MutSafeTitle(title) ==
    IF title.t = "str" /\ title.v # <<>> THEN JStr(title.v) ELSE JNull

safeTitle(title) ==
    IF title.t = "str" /\ Trim(title.v) # <<>> THEN JStr(Trim(title.v)) ELSE JNull

finalSlug(core, entrySlug, safe) ==
    LET auto == /\ (~Truthy(entrySlug) \/ Trim(StringOf(entrySlug)) = <<>>)
                /\ ~(core.autoSlugFromTitleIfEmpty.t = "bool"
                        /\ ~core.autoSlugFromTitleIfEmpty.v)
        es == IF auto THEN JStr(slugify(safe)) ELSE entrySlug
    IN IF es.t = "str" /\ Trim(es.v) # <<>> THEN Trim(es.v) ELSE slugify(safe)

KDraft == <<"d", "r", "a", "f", "t">>

\* A default of published for a request without a status.
MutFinalStatus(status) ==
    IF status.t = "str" /\ Trim(status.v) # <<>> THEN Trim(status.v)
    ELSE <<"p", "u", "b", "l", "i", "s", "h", "e", "d">>

finalStatus(status) ==
    IF status.t = "str" /\ Trim(status.v) # <<>> THEN Trim(status.v) ELSE KDraft

\* SELECT field_key AS key, type FROM content_fields WHERE content_type_id = $1
FieldsRows(typeId) == SelectSeq(ContentFields, LAMBDA f : f.content_type_id = typeId)

\* A catch that answers every database error alike.
MutWriteErrorStatus(code) == 500

\* The catch of the write handlers: the status answered for a database error code.
WriteErrorStatus(code) == IF code = "23505" THEN 409 ELSE 500

\* The unique constraint of the entries table on (content_type_id, slug).
UniqueViolation(others, row) ==
    \E e \in others : e.content_type_id = row.content_type_id /\ e.slug = row.slug

\* now(): later than every timestamp stored.
Now ==
    LET ts == {e.created_at : e \in entries} \cup {e.updated_at : e \in entries}
    IN IF ts = {} THEN 1 ELSE 1 + (CHOOSE n \in ts : \A m \in ts : m <= n)

\* Identifiers gen_random_uuid() hands out.
NewIds == {Uuid("8"), Uuid("9")}

NewReq(in) ==
    [pc |-> "received", in |-> in, typeId |-> "", core |-> EmptyCore, title |-> JUndef,
     safeTitle |-> <<>>, finalSlug |-> <<>>, finalStatus |-> <<>>,
     normalizedData |-> EmptyObj, steps |-> <<>>, rows |-> <<>>,
     res |-> [status |-> 0, body |-> <<>>]]

Answer(q, status, body) == [q EXCEPT !.pc = "done", !.res = [status |-> status, body |-> body]]

\* The handler up to its INSERT / UPDATE: content type, effective core, title,
\* slug, status, field list, normalized data.
prepare ==
  \E r \in DOMAIN req :
    /\ req[r].pc = "received"
    /\ \E viewsOk \in BOOLEAN, canonOk \in BOOLEAN :
        LET q == req[r]
            in == q.in
        IN IF TypeRows(in.typeSlug) = {}
           THEN req' = [req EXCEPT ![r] = Answer(q, 404, <<>>)]
           ELSE LET typeId == (CHOOSE ct \in TypeRows(in.typeSlug) : TRUE).id
                    roleUpper == ToUpper(StringOf(OrElse(in.role, JStr(<<"A", "D", "M", "I", "N">>))))
                    core == getEffectiveEditorCoreForType(typeId, roleUpper, viewsOk)
                    title == EffectiveTitle(core, in.title, in.data)
                    safe == safeTitle(title)
                    derived == IF TemplateMode(core) THEN <<"derive">> ELSE <<>>
                    caught == IF ~canonOk /\ \E i \in 1..Len(FieldsRows(typeId)) :
                                                FieldsRows(typeId)[i].type \in
                                                    {"email", "phone", "url", "address"}
                              THEN <<"catch">> ELSE <<>>
                    q1 == [q EXCEPT !.typeId = typeId, !.core = core, !.title = title,
                                    !.steps = derived]
                IN IF safe.t = "null"
                   THEN req' = [req EXCEPT ![r] = Answer(q1, 400, <<>>)]
                   ELSE req' = [req EXCEPT ![r] =
                          [q1 EXCEPT
                             !.pc = "persist",
                             !.safeTitle = safe.v,
                             !.finalSlug = finalSlug(core, in.slug, safe.v),
                             !.finalStatus = finalStatus(in.status),
                             !.normalizedData =
                                 normalizeEntryData(FieldsRows(typeId),
                                     OrElse(in.data, JObj(EmptyObj)).v, canonOk),
                             !.steps = derived \o <<"normalize">> \o caught]]
    /\ UNCHANGED <<entries, readResp, nonSrvVars>>

\* The INSERT or UPDATE statement, and the catch when it fails.
persist ==
  \E r \in DOMAIN req :
    /\ req[r].pc = "persist"
    /\ LET q == [req[r] EXCEPT !.steps = req[r].steps \o <<"persist">>] IN
       IF q.in.kind = "create"
       THEN \E id \in NewIds \ {e.id : e \in entries} :
              LET row == [id |-> id, content_type_id |-> q.typeId, title |-> q.safeTitle,
                          slug |-> q.finalSlug, status |-> q.finalStatus,
                          data |-> q.normalizedData, created_at |-> Now,
                          updated_at |-> Now]
              IN IF UniqueViolation(entries, row)
                 THEN /\ req' = [req EXCEPT ![r] = Answer(q, WriteErrorStatus("23505"), <<>>)]
                      /\ entries' = entries
                 ELSE /\ req' = [req EXCEPT ![r] = [q EXCEPT !.pc = "resolve", !.rows = <<row>>]]
                      /\ entries' = entries \cup {row}
       ELSE LET targets == EntryRows(q.in.id, q.typeId) IN
            IF targets = {}
            THEN /\ req' = [req EXCEPT ![r] = Answer(q, 404, <<>>)]
                 /\ entries' = entries
            ELSE LET old == CHOOSE e \in targets : TRUE
                     row == [old EXCEPT !.title = q.safeTitle, !.slug = q.finalSlug,
                                        !.status = q.finalStatus,
                                        !.data = q.normalizedData, !.updated_at = Now]
                 IN IF UniqueViolation(entries \ {old}, row)
                    THEN /\ req' = [req EXCEPT ![r] =
                                      Answer(q, WriteErrorStatus("23505"), <<>>)]
                         /\ entries' = entries
                    ELSE /\ req' = [req EXCEPT ![r] =
                                      [q EXCEPT !.pc = "resolve", !.rows = <<row>>]]
                         /\ entries' = (entries \ {old}) \cup {row}
    /\ UNCHANGED <<readResp, nonSrvVars>>

\* attachResolvedUsersToEntries on the row written, then the response.
respond ==
  \E r \in DOMAIN req :
    /\ req[r].pc = "resolve"
    /\ \E usersOk \in BOOLEAN :
        LET q == req[r]
            att == attachResolvedUsersToEntries(q.typeId, <<AsReturned(q.rows[1])>>, usersOk)
        IN req' = [req EXCEPT ![r] =
                     IF att.threw THEN Answer(q, WriteErrorStatus("none"), <<>>)
                     ELSE Answer(q, IF q.in.kind = "create" THEN 201 ELSE 200, att.entries)]
    /\ UNCHANGED <<entries, readResp, nonSrvVars>>

WriteNext == prepare \/ persist \/ respond

\* Request bodies: data with a camelCase alias, with canonical keys, with both,
\* and with a blank text and an e-mail address.
D1 == JObj((<<"f", "N">> :> JStr(<<"A", "d", "a">>)))
D2 == JObj((KFn :> JStr(<<"B", "o">>)) @@ (KOwner :> JStr(Uuid("a"))))
D3 == JObj((KFn :> JStr(<<"B", "o">>)) @@ (<<"f", "N">> :> JStr(<<"A", "d", "a">>)))
D4 == JObj((KFn :> JStr(<<" ">>)) @@ (KEm :> JStr(<<" ", "E", "@", "X", " ">>)))

WriteBodies ==
    [role : {JUndef, JStr(<<"e", "d", "i", "t", "o", "r">>)},
     title : {JUndef, JStr(<<"X">>), JStr(<<" ">>), JStr(<<" ", "A", "b", " ", "-", "!", "c", " ">>)},
     slug : {JUndef, JStr(<<"s">>), JStr(<<" ", "Y", " ">>)},
     status : {JUndef, JStr(<<"p", "u", "b", "l", "i", "s", "h", "e", "d">>)},
     data : {JUndef, D1, D2, D3, D4}]

RaceBodies ==
    [role : {JUndef}, title : {JStr(<<"X">>)}, slug : {JUndef, JStr(<<"s">>), JStr(<<"x">>)},
     status : {JUndef}, data : {JUndef}]

\* The requests made of a set of bodies: a create, or an update by id or by slug.
Requests(typeSlugs, bodies) ==
    { [kind |-> t[1], id |-> t[2], typeSlug |-> ts, role |-> b.role, title |-> b.title,
       slug |-> b.slug, status |-> b.status, data |-> b.data]
      : t \in {<<"create", <<>> >>, <<"update", Uuid("1")>>, <<"update", <<"s">>>>},
        ts \in typeSlugs, b \in bodies }

WriteStores == {{}, {E1}, {E4}, {E1, E2}, {E1, E4}}

\* One write request arrives at a server whose table holds the rows earlier
\* writes left.
WriteInit ==
    /\ entries \in WriteStores
    /\ req \in [{"r1"} -> {NewReq(in) : in \in Requests(ReadTypeSlugs, WriteBodies)}]
    /\ readResp = NoRead
    /\ RepIdle /\ VisIdle /\ LayIdle /\ TitleIdle /\ NormIdle /\ ViewIdle /\ DelIdle /\ PickIdle

SpecWrite == WriteInit /\ [][WriteNext]_vars

\* Two write requests arrive together.
ConcInit ==
    /\ entries \in WriteStores
    /\ req \in [{"r1", "r2"} ->
                  {NewReq(in) : in \in Requests({"people", "notes"}, RaceBodies)}]
    /\ readResp = NoRead
    /\ RepIdle /\ VisIdle /\ LayIdle /\ TitleIdle /\ NormIdle /\ ViewIdle /\ DelIdle /\ PickIdle

SpecConc == ConcInit /\ [][WriteNext]_vars

\* The rows a write request is about to replace (none for a create).
Targets(q) == IF q.in.kind = "create" THEN {} ELSE EntryRows(q.in.id, q.typeId)

\* Another entry of the request's content type already has the slug it writes.
SlugTaken(q) ==
    \E e \in entries \ Targets(q) : e.content_type_id = q.typeId /\ e.slug = q.finalSlug

SlugGiven(q) == q.in.slug.t = "str" /\ Trim(q.in.slug.v) # <<>>

\* C7: no two entries of one content type ever share a slug.  A create or update
\* (also two at once) that would give a second entry of the content type a slug
\* in use answers 409 and changes no entry; otherwise the write is accepted,
\* whatever the other content types hold, and the slug stored is the slug the
\* request carried, unaltered.
C7_SlugUniquePerType ==
    /\ [](\A a, b \in entries :
            (a.content_type_id = b.content_type_id /\ a.slug = b.slug) => a = b)
    /\ [][\A r \in DOMAIN req :
            (req[r].pc = "persist" /\ req'[r].pc # "persist") =>
                LET q == req[r] IN
                IF SlugTaken(q) /\ (q.in.kind = "create" \/ Targets(q) # {})
                THEN /\ entries' = entries
                     /\ req'[r].pc = "done" /\ req'[r].res.status = 409
                ELSE IF q.in.kind = "update" /\ Targets(q) = {}
                THEN entries' = entries /\ req'[r].res.status = 404
                ELSE /\ req'[r].pc = "resolve"
                     /\ req'[r].rows[1] \in entries'
                     /\ req'[r].rows[1].content_type_id = q.typeId
                     /\ req'[r].rows[1].slug = q.finalSlug
                     /\ SlugGiven(q) => req'[r].rows[1].slug = Trim(q.in.slug.v)
                     /\ entries \ Targets(q) = entries' \ {req'[r].rows[1]}
         ]_vars

\* Two creates of the same slug under the same content type raced: one row was
\* written, the other request answered 409, and the other content type holds the
\* same slug.
C7_Witness ==
    /\ DOMAIN req = {"r1", "r2"}
    /\ req["r1"].in.kind = "create" /\ req["r2"].in.kind = "create"
    /\ req["r1"].in.typeSlug = "people" /\ req["r2"].in.typeSlug = "people"
    /\ req["r1"].finalSlug = <<"s">> /\ req["r2"].finalSlug = <<"s">>
    /\ req["r1"].res.status = 409
    /\ req["r2"].res.status = 201
    /\ req["r2"].rows[1] \in entries
    /\ E4 \in entries

\* Position of a step in the steps a request went through (0: not taken).
StepAt(steps, name) ==
    IF \E i \in 1..Len(steps) : steps[i] = name
    THEN CHOOSE i \in 1..Len(steps) : steps[i] = name
    ELSE 0

\* C8: within a write request normalization comes first, then title derivation,
\* then the persistence write; the title is derived from the normalized data.
C8_NormalizeDeriveStore ==
    \A r \in DOMAIN req :
        LET q == req[r] IN
        (q.rows # <<>> /\ TemplateMode(q.core)) =>
            /\ 0 < StepAt(q.steps, "normalize")
            /\ StepAt(q.steps, "normalize") < StepAt(q.steps, "derive")
            /\ StepAt(q.steps, "derive") < StepAt(q.steps, "persist")
            /\ q.title = EffectiveTitle(q.core, q.in.title, JObj(q.normalizedData))

\* The title a template-mode core derives from the data of the request body.
DerivedOf(q) ==
    deriveTitleFromTemplate(StringOf(OrElse(q.core.titleTemplate, JStr(<<>>))),
                            OrElse(q.in.data, JObj(EmptyObj)))

\* C10: on create and update, when the effective core's titleMode is template
\* and the title derived from the template and the request's data is not empty,
\* the title stored is the derived title, whatever title the client sent.
C10_DerivedTitleOverrides ==
    \A r \in DOMAIN req :
        LET q == req[r] IN
        (q.typeId # "" /\ TemplateMode(q.core) /\ DerivedOf(q) # <<>>) =>
            /\ q.res.status # 400
            /\ q.rows # <<>> =>
                  /\ q.rows[1].title = DerivedOf(q)
                  /\ q.pc = "resolve" => q.rows[1] \in entries
            /\ q.res.status \in {200, 201} => q.res.body[1].entry.title = DerivedOf(q)

\* An update that sent the title "X" stored the derived title "Bo".
C10_Witness ==
    \E r \in DOMAIN req :
        /\ req[r].in.kind = "update"
        /\ req[r].in.title = JStr(<<"X">>)
        /\ TemplateMode(req[r].core)
        /\ req[r].res.status = 200
        /\ req[r].res.body[1].entry.title = <<"B", "o">>
        /\ req[r].res.body[1].entry \in entries

\* core?.autoSlugFromTitleIfEmpty !== false
AutoSlug(core) ==
    ~(core.autoSlugFromTitleIfEmpty.t = "bool" /\ ~core.autoSlugFromTitleIfEmpty.v)

\* The letters and digits of a string, lower-cased, in order.
AlnumOf(s) == SelectSeq(ToLower(s), IsSlugChar)

\* Lower-case letters, digits and single hyphens, no hyphen at either end.
WellFormedSlug(s) ==
    /\ \A i \in 1..Len(s) : IsSlugChar(s[i]) \/ s[i] = "-"
    /\ s # <<>> => (s[1] # "-" /\ s[Len(s)] # "-")
    /\ \A i \in 1..Len(s) - 1 : ~(s[i] = "-" /\ s[i + 1] = "-")

\* C11: on create and update, when the request carries no slug (absent or blank)
\* and autoSlugFromTitleIfEmpty is not switched off, the slug stored is the
\* slugified final title: its letters and digits lower-cased, each run of other
\* characters one hyphen, no hyphen at either end.
C11_AutoSlugFromTitle ==
    \A r \in DOMAIN req :
        LET q == req[r] IN
        (q.rows # <<>> /\ ~SlugGiven(q) /\ AutoSlug(q.core)) =>
            /\ q.rows[1].slug = slugify(q.rows[1].title)
            /\ WellFormedSlug(q.rows[1].slug)
            /\ AlnumOf(q.rows[1].slug) = AlnumOf(q.rows[1].title)
            /\ Len(q.rows[1].slug) <= Len(q.rows[1].title)

\* A create without slug under a core with autoSlugFromTitleIfEmpty true stored
\* the title "Ab -!c" with the slug "ab-c".
C11_Witness ==
    \E r \in DOMAIN req :
        /\ req[r].in.kind = "create" /\ req[r].in.slug = JUndef
        /\ req[r].core.autoSlugFromTitleIfEmpty = JBool(TRUE)
        /\ req[r].res.status = 201
        /\ req[r].res.body[1].entry.title = <<"A", "b", " ", "-", "!", "c">>
        /\ req[r].res.body[1].entry.slug = <<"a", "b", "-", "c">>

\* Missing, not a string, or made of whitespace only.
BlankTitle(t) == t.t # "str" \/ \A i \in 1..Len(t.v) : IsWs(t.v[i])

\* The title of a request after the template step, from its body and its core.
TitleAfterDerivation(q) ==
    IF TemplateMode(q.core) /\ DerivedOf(q) # <<>> THEN JStr(DerivedOf(q)) ELSE q.in.title

\* C12: a create or update whose title is missing or blank after template
\* derivation is answered 400 and writes nothing: it never reaches the INSERT or
\* UPDATE and the table stays as it was.
C12_BlankTitleRejected ==
    /\ [](\A r \in DOMAIN req :
            LET q == req[r] IN
            (q.typeId # "" /\ BlankTitle(TitleAfterDerivation(q))) =>
                /\ q.pc = "done" /\ q.res.status = 400
                /\ q.rows = <<>>
                /\ StepAt(q.steps, "persist") = 0)
    /\ [](\A r \in DOMAIN req :
            req[r].res.status = 400 =>
                req[r].typeId # "" /\ BlankTitle(TitleAfterDerivation(req[r])))
    /\ [][(\E r \in DOMAIN req : req'[r].res.status = 400) => entries' = entries]_vars

\* An update with the title " " whose template derives nothing was answered 400
\* and the entry it addressed is as before.
C12_Witness ==
    \E r \in DOMAIN req :
        /\ req[r].in.kind = "update" /\ req[r].in.id = <<"s">>
        /\ req[r].in.title = JStr(<<" ">>)
        /\ req[r].in.data = D4
        /\ TemplateMode(req[r].core)
        /\ req[r].res.status = 400
        /\ entries = {E1}

(***************************************************************************)
(* Claims about hidden subfields and row copies (SpecRows).                *)
(***************************************************************************)
TopRows == CoerceRows(value)

\* Subfield k is hidden in a row by the rules of the outermost repeater.
HiddenIn(row, k) ==
    ~computeSubfieldVisibility(cfg[1].subfields, cfg[1].rules, row)[k]

TopKeys == {cfg[1].subfields[j].key : j \in 1..Len(cfg[1].subfields)}

\* Row new holds, under every key hidden in it, what row old held.
KeepsHidden(old, new) ==
    \A k \in TopKeys : HiddenIn(new, k) => Get(new, k) = Get(old, k)

\* C13: no repeater operation clears or alters the stored value of a hidden
\* subfield: after a field write every subfield hidden in the written row holds
\* the value it held before (also the one the write has just hidden), and
\* addRow, removeRow and duplicateRow leave the rows that stay as they were.
C13_HiddenValueRetained ==
    [][LET old == TopRows
           new == CoerceRows(value')
           i == lastOp'.i
       IN CASE lastOp'.op = "setRow" ->
                 /\ Len(new) = Len(old)
                 /\ \A j \in 1..Len(old) : j # i => new[j] = old[j]
                 /\ KeepsHidden(old[i], new[i])
            [] lastOp'.op = "addRow" ->
                 \A j \in 1..Len(old) : new[j] = old[j]
            [] lastOp'.op = "removeRow" ->
                 \/ new = old
                 \/ /\ Len(new) = Len(old) - 1
                    /\ \A j \in 1..Len(new) : new[j] = old[IF j < i THEN j ELSE j + 1]
            [] lastOp'.op = "duplicateRow" ->
                 \/ new = old
                 \/ /\ Len(new) = Len(old) + 1
                    /\ \A j \in 1..Len(new) : new[j] = old[IF j <= i THEN j ELSE j - 1]
            [] OTHER -> TRUE
      ]_vars

\* A write has filled a in a row whose b was filled before: the rule hides b and
\* the row still holds b.
C13_Witness ==
    /\ cfg[1].rules = HideBWhenA
    /\ lastOp.op = "setRow"
    /\ lastOp.i \in 1..Len(TopRows)
    /\ HiddenIn(TopRows[lastOp.i], "b")
    /\ Get(TopRows[lastOp.i], "b") = JStr(<<"1">>)
    /\ Get(TopRows[lastOp.i], "a") = JStr(<<"1">>)

(***************************************************************************)
(* Further claims about the visibility rules (SpecVis).                    *)
(***************************************************************************)
\* The rules without the targets that are not declared subfields.
DeclaredTargetsOnly(rules) ==
    [i \in 1..Len(rules) |->
        [rules[i] EXCEPT !.targets =
            SelectSeq(rules[i].targets, LAMBDA t : t \in SubfieldKeys(VisSubfields))]]

\* A matching rule that names a key outside the declared subfields.
UndeclaredMatch(i) ==
    /\ evalRule(visRow, visRules[i])
    /\ \E j \in 1..Len(visRules[i].targets) :
          visRules[i].targets[j] \notin SubfieldKeys(VisSubfields)

\* C14: a target that is not a declared sibling subfield changes the visibility
\* of no declared subfield: every declared key comes out as it does with those
\* targets deleted from the rules, whatever the action of their rule.
C14_UndeclaredTargetNoOp ==
    visOut.done =>
        \A k \in SubfieldKeys(VisSubfields) :
            visOut.vis[k] =
                computeSubfieldVisibility(VisSubfields, DeclaredTargetsOnly(visRules),
                                          visRow)[k]

\* A matching rule hides the undeclared key zz, last of all, while another
\* matching rule hid b: b is hidden, a and c are visible.
C14_Witness ==
    /\ visOut.done
    /\ Len(visRules) >= 2
    /\ UndeclaredMatch(Len(visRules))
    /\ visRules[Len(visRules)].action = "hide"
    /\ \E i \in MatchingRules("b") : visRules[i].targets = <<"b">>
    /\ ~visOut.vis["b"] /\ visOut.vis["a"] /\ visOut.vis["c"]

(***************************************************************************)
(* The ordering operators (SpecCmp): one rule on age targeting waiver,     *)
(* evaluated on a row whose age is absent, null, a number or a string.     *)
(***************************************************************************)
CmpSubfields == <<[key |-> "age", type |-> "text"], [key |-> "waiver", type |-> "text"]>>

CmpActuals ==
    {JStr(<<"2", "0">>), JStr(<<"9">>), JStr(<<>>), JStr(<<"a", "b", "c">>),
     JStr(<<" ", "1", "8", " ">>), JNum(20), JNull}

CmpValues ==
    {JNum(18), JStr(<<"1", "8">>), JStr(<<"9">>), JStr(<<"a", "b", "c">>), JStr(<<>>), JNull}

CmpInit ==
    /\ \E o \in {"gt", "gte", "lt", "lte"}, v \in CmpValues, act \in {"show", "hide"} :
          visRules = <<[ifKey |-> "age", op |-> o, value |-> v, action |-> act,
                        targets |-> <<"waiver">>]>>
    /\ visRow \in {EmptyRow} \cup {[k \in {"age"} |-> a] : a \in CmpActuals}
    /\ visOut = [done |-> FALSE]
    /\ RepIdle /\ LayIdle /\ SrvIdle /\ TitleIdle /\ NormIdle /\ ViewIdle /\ DelIdle /\ PickIdle

cmpCompute ==
    /\ ~visOut.done
    /\ visOut' = [done |-> TRUE,
                  vis |-> computeSubfieldVisibility(CmpSubfields, visRules, visRow)]
    /\ UNCHANGED <<visRules, visRow, nonVisVars>>

CmpNext == cmpCompute

SpecCmp == CmpInit /\ [][CmpNext]_vars

\* x op y for an ordering operator, given the strict order "less".
Ordered(op, xLessY, yLessX) ==
    CASE op = "gt" -> yLessX
      [] op = "gte" -> ~xLessY
      [] op = "lt" -> xLessY
      [] OTHER -> ~yLessX

\* The rule of the state matches its row: by value when both sides are numbers
\* to Number(), by the order of their string forms otherwise.
CmpMatches ==
    LET rule == visRules[1]
        actual == Get(visRow, "age")
        na == NumberOf(actual)
        nb == NumberOf(rule.value)
        sa == cmp(actual)
        sb == cmp(rule.value)
    IN IF na # <<>> /\ nb # <<>>
       THEN Ordered(rule.op, na[1] < nb[1], nb[1] < na[1])
       ELSE Ordered(rule.op, StrLess(sa, sb), StrLess(sb, sa))

\* C15: gt, gte, lt and lte compare row[ifKey] and the rule's value as numbers
\* when both parse as numbers and as strings otherwise; a matching rule sets its
\* target, a rule that does not match leaves it visible.  The rule age gte 18
\* with action show on the row {age: "20"} leaves waiver visible.
C15_NumericElseLexicographic ==
    visOut.done =>
        /\ visOut.vis["waiver"] = (CmpMatches => visRules[1].action = "show")
        /\ (/\ visRules[1].op = "gte" /\ visRules[1].value = JNum(18)
            /\ visRules[1].action = "show"
            /\ visRow = [k \in {"age"} |-> JStr(<<"2", "0">>)]) => visOut.vis["waiver"]

\* The rule age gte 18 with action hide met the row {age: "9"}: 9 < 18 as numbers
\* ("9" >= "18" as strings), so the rule did not match and waiver is visible.
C15_Witness ==
    /\ visOut.done
    /\ visRules[1].op = "gte" /\ visRules[1].value = JNum(18)
    /\ visRules[1].action = "hide"
    /\ visRow = [k \in {"age"} |-> JStr(<<"9">>)]
    /\ visOut.vis["waiver"]

\* C16: duplicateRow(i) below maxRows gives a list one row longer whose row i + 1
\* has the content of row i, the other rows keeping content and order; a later
\* write to one row (the copy or its source among them) changes no other row.
C16_DuplicateInsertsCopy ==
    [][LET old == TopRows
           new == CoerceRows(value')
           i == lastOp'.i
       IN /\ (lastOp'.op = "duplicateRow" /\ ~AtMaxRows) =>
                /\ Len(new) = Len(old) + 1
                /\ new[i + 1] = old[i]
                /\ \A j \in 1..i : new[j] = old[j]
                /\ \A j \in (i + 2)..Len(new) : new[j] = old[j - 1]
          /\ lastOp'.op = "setRow" =>
                /\ Len(new) = Len(old)
                /\ \A j \in 1..Len(old) : j # i => new[j] = old[j]
      ]_vars

\* The first of two differing rows was duplicated: rows 1 and 2 hold a = "1", the
\* row that was second is third.
C16_Witness ==
    /\ lastOp = [op |-> "duplicateRow", i |-> 1]
    /\ Len(TopRows) = 3
    /\ TopRows[1] = [k \in {"a"} |-> JStr(<<"1">>)]
    /\ TopRows[2] = TopRows[1]
    /\ TopRows[3] = EmptyRow

\* The row list with rows i and i + 1 exchanged.
SwapRows(rows, i) ==
    [j \in 1..Len(rows) |->
        IF j = i THEN rows[i + 1] ELSE IF j = i + 1 THEN rows[i] ELSE rows[j]]

\* C17: the repeater has a reorder operation: wherever a row has a different row
\* right below it, one step of the repeater exchanges the two (the upper one moved
\* down, the lower one moved up).
C17_ReorderSwapsNeighbour ==
    \A i \in 1..(Len(TopRows) - 1) :
        TopRows[i] # TopRows[i + 1] =>
            ENABLED (RepNext /\ CoerceRows(value') = SwapRows(TopRows, i))

(***************************************************************************)
(* deriveTitleFromTemplate on its own (SpecTitle): one call of the server's *)
(* function or of the entry editor's copy on a template and entry data.    *)
(* The copy tests the object branch of asPrettyInline before the array     *)
(* branch and the name keys with `in`; on JSON data the two agree, and one *)
(* set of operators models both.                                           *)
(***************************************************************************)
KA == <<"a">>
KB == <<"b">>
KC == <<"c">>

Obj1(k, v) == JObj([x \in {k} |-> v])

TitleTemplates ==
    { <<"{", "n", "a", "m", "e", ".", "f", "i", "r", "s", "t", "}", " ", "{", "n", "a", "m", "e", ".", "l", "a", "s", "t", "}">>, <<"{", "a", ".", "b", "}">>, <<"{", " ", "}">>, <<"{", "a", ".", "l", "e", "n", "g", "t", "h", "}">>,
      <<"{", "c", "o", "n", "s", "t", "r", "u", "c", "t", "o", "r", "}">>, <<"{", "a", ".", "0", "}">>, <<" ", "{", "a", "}", " ", " ", "{", "b", "}", " ">>, <<"{", "a", "}", ",", " ", "{", "a", ".", "b", ".", "c", "}">>,
      <<" ", " ">>, <<"{", "}", "x", "{", "a">> }

TitleData ==
    { JUndef, JNull, JObj(EmptyObj),
      Obj1(KName, JObj([x \in {KFirst, KLast} |->
                          IF x = KFirst THEN JStr(<<"A", "d", "a">>) ELSE JStr(<<"L", "o", "v", "e", "l", "a", "c", "e">>)])),
      Obj1(KName, JStr(<<"B", "o">>)),
      Obj1(KA, JStr(<<"H", "i">>)),
      Obj1(KA, JNull),
      Obj1(KA, Obj1(KB, JStr(<<" ", "p", " ", " ", "q", " ">>))),
      Obj1(KA, Obj1(KB, Obj1(KC, JNum(7)))),
      Obj1(KA, JArr(<<JStr(<<"x">>), JNull, JStr(<<"y", " ", "z">>)>>)),
      JObj([x \in {KA, KB} |-> IF x = KA THEN JNum(5) ELSE JBool(TRUE)]) }

TitleInit ==
    /\ \E tpl \in TitleTemplates, d \in TitleData : titleIn = [template |-> tpl, data |-> d]
    /\ titleOut = [done |-> FALSE]
    /\ RepIdle /\ VisIdle /\ LayIdle /\ SrvIdle /\ NormIdle /\ ViewIdle /\ DelIdle /\ PickIdle

\* What a caller of deriveTitleFromTemplate gets: the title, or the exception.
TitleCall(side) ==
    LET out == deriveTitleFromTemplate(titleIn.template, titleIn.data)
        threw == \E i \in 1..Len(out) : out[i] = Raised
    IN [done |-> TRUE, side |-> side, threw |-> threw,
        title |-> IF threw THEN <<>> ELSE out]

deriveServer ==
    /\ ~titleOut.done
    /\ titleOut' = TitleCall("server")
    /\ UNCHANGED <<titleIn, nonTitleVars>>

deriveClient ==
    /\ ~titleOut.done
    /\ titleOut' = TitleCall("client")
    /\ UNCHANGED <<titleIn, nonTitleVars>>

TitleNext == deriveServer \/ deriveClient

SpecTitle == TitleInit /\ [][TitleNext]_vars

\* The template is one token and nothing else: "{", a path without braces, "}".
LoneToken(tpl) ==
    /\ Len(tpl) >= 3 /\ tpl[1] = "{" /\ tpl[Len(tpl)] = "}"
    /\ \A i \in 2..(Len(tpl) - 1) : tpl[i] \notin {"{", "}"}

PathOf(tpl) == TrimmedNonEmpty(SplitOn(Trim(SubSeq(tpl, 2, Len(tpl) - 1)), "."))

\* The path leads to a place of the data: every step is a key the object reached
\* has, or an index the array reached has.
RECURSIVE Resolves(_, _)
Resolves(cur, parts) ==
    IF parts = <<>> THEN TRUE
    ELSE /\ \/ cur.t = "obj" /\ Head(parts) \in DOMAIN cur.v
            \/ cur.t = "arr" /\ IsIndexOf(Head(parts), Len(cur.v))
         /\ Resolves(Prop(cur, Head(parts)), Tail(parts))

Unresolved == LoneToken(titleIn.template)
                /\ (PathOf(titleIn.template) = <<>>
                       \/ ~Resolves(titleIn.data, PathOf(titleIn.template)))

\* C18: no call of deriveTitleFromTemplate raises, and a token whose path does not
\* resolve in the data (a missing key, a null or non-object value on the way, a
\* blank token) contributes the empty string: alone, it gives the empty title.
C18_UnresolvedTokenIsEmpty ==
    titleOut.done =>
        /\ ~titleOut.threw
        /\ Unresolved => titleOut.title = <<>>

\* No whitespace at either end and no two whitespace characters in a row.
Normalized(s) ==
    /\ s # <<>> => ~IsWs(s[1]) /\ ~IsWs(s[Len(s)])
    /\ \A i \in 1..(Len(s) - 1) : ~(IsWs(s[i]) /\ IsWs(s[i + 1]))

NameTemplate == <<"{", "n", "a", "m", "e", ".", "f", "i", "r", "s", "t", "}", " ", "{", "n", "a", "m", "e", ".", "l", "a", "s", "t", "}">>
AdaLovelace ==
    Obj1(KName, JObj([x \in {KFirst, KLast} |->
                        IF x = KFirst THEN JStr(<<"A", "d", "a">>) ELSE JStr(<<"L", "o", "v", "e", "l", "a", "c", "e">>)]))

\* C19: the title deriveTitleFromTemplate returns is whitespace-normalized (nothing
\* at either end, no run of two), whatever the tokens resolve to, and the template
\* "{name.first} {name.last}" on {name: {first: Ada, last: Lovelace}} gives
\* "Ada Lovelace".
C19_TitleNormalized ==
    titleOut.done =>
        /\ ~titleOut.threw
        /\ Normalized(titleOut.title)
        /\ titleIn = [template |-> NameTemplate, data |-> AdaLovelace] =>
                titleOut.title = <<"A", "d", "a", " ", "L", "o", "v", "e", "l", "a", "c", "e">>

\* The server derived "Ada Lovelace" from the name template.
C19_Witness ==
    /\ titleOut.done /\ titleOut.side = "server"
    /\ titleIn = [template |-> NameTemplate, data |-> AdaLovelace]
    /\ titleOut.title = <<"A", "d", "a", " ", "L", "o", "v", "e", "l", "a", "c", "e">>

\* C20: once a write request has normalized its payload, every field of the
\* content type whose camelCase alias is a key of the raw payload while its
\* canonical key is not has the alias's value under the canonical key, and the
\* alias key is gone.
C20_AliasMovedToCanonical ==
    \A r \in DOMAIN req :
        LET q == req[r]
            raw == OrElse(q.in.data, JObj(EmptyObj)).v
        IN StepAt(q.steps, "normalize") > 0 =>
            \A i \in 1..Len(FieldsRows(q.typeId)) :
                LET snake == FieldsRows(q.typeId)[i].key
                    camel == Camel(snake)
                IN (camel # snake /\ camel \in DOMAIN raw /\ snake \notin DOMAIN raw) =>
                      /\ snake \in DOMAIN q.normalizedData
                      /\ q.normalizedData[snake] = raw[camel]
                      /\ camel \notin DOMAIN q.normalizedData

(***************************************************************************)
(* normalizeEntryData on its own (SpecNorm): the function is called on a   *)
(* payload and then on its own result.  Whether a canonicalizer raises is  *)
(* decided by the value it is given (normIn.bad: the values it fails on).  *)
(***************************************************************************)
FieldDef(k, t) == [key |-> k, type |-> t]

NormSchemas ==
    { <<>>,
      <<FieldDef(KFn, "text"), FieldDef(KEm, "email")>>,
      <<FieldDef(<<"e", "_", "m">>, "email"), FieldDef(KFn, "text")>>,
      <<FieldDef(<<"a", "_", "b", "_", "c">>, "text"), FieldDef(<<"a", "B", "_", "c">>, "text")>>,
      <<FieldDef(<<"a", "B", "_", "c">>, "text"), FieldDef(<<"a", "_", "b", "_", "c">>, "text")>>,
      <<FieldDef(<<"f", "_", "n">>, "text"), FieldDef(<<"f", "N">>, "text")>> }

PadEmail == JStr(<<" ", "E", "@", "X", " ">>)
CleanEmail == JStr(<<"e", "@", "x">>)

NormPayloads ==
    { EmptyObj,
      (<<"f", "N">> :> JStr(<<"A", "d", "a">>)),
      (<<"f", "N">> :> JStr(<<"A", "d", "a">>)) @@ (KFn :> JStr(<<"B", "o">>)),
      (<<"f", "N">> :> JNull),
      (<<"a", "B", "C">> :> JStr(<<"v">>)),
      (<<"a", "B", "_", "c">> :> JStr(<<"v">>)),
      (<<"e", "M">> :> PadEmail),
      (<<"e", "M">> :> PadEmail) @@ (KFn :> JStr(<<"B", "o">>)),
      (<<"e", "M">> :> JStr(<<"q">>)) @@ (<<"e", "_", "m">> :> PadEmail),
      (KEm :> PadEmail) @@ (<<"f", "N">> :> JStr(<<"A", "d", "a">>)),
      (KEm :> CleanEmail),
      (KEm :> JNull) @@ (<<"f", "N">> :> JStr(<<"A", "d", "a">>)) }

NormBad == { {}, {PadEmail}, {CleanEmail}, {JNull}, {JUndef} }

NormInit ==
    /\ \E fs \in NormSchemas, d \in NormPayloads, b \in NormBad :
            normIn = [fields |-> fs, data |-> d, bad |-> b]
    /\ normOut = [calls |-> 0]
    /\ RepIdle /\ VisIdle /\ LayIdle /\ SrvIdle /\ TitleIdle /\ ViewIdle /\ DelIdle /\ PickIdle

IsTyped(f) == f.type \in {"email", "phone", "url", "address"}

\* No canonicalizer of the second loop is handed a value it fails on.
CanonOk(fieldDefs, dataIn, bad) ==
    LET out == MoveAliases(fieldDefs, dataIn)
    IN \A i \in 1..Len(fieldDefs) :
            IsTyped(fieldDefs[i]) => Get(out, fieldDefs[i].key) \notin bad

NormCall(dataIn) ==
    normalizeEntryData(normIn.fields, dataIn, CanonOk(normIn.fields, dataIn, normIn.bad))

normalizeOnce ==
    /\ normOut.calls = 0
    /\ normOut' = [calls |-> 1, once |-> NormCall(normIn.data)]
    /\ UNCHANGED <<normIn, nonNormVars>>

normalizeAgain ==
    /\ normOut.calls = 1
    /\ normOut' = [calls |-> 2, once |-> normOut.once, twice |-> NormCall(normOut.once)]
    /\ UNCHANGED <<normIn, nonNormVars>>

NormNext == normalizeOnce \/ normalizeAgain

SpecNorm == NormInit /\ [][NormNext]_vars

C22_CanonicalizerFailureKeepsRaw ==
    \A r \in DOMAIN req :
        LET q == req[r]
            raw == OrElse(q.in.data, JObj(EmptyObj)).v
            fs == FieldsRows(q.typeId)
        IN StepAt(q.steps, "catch") > 0 =>
            /\ \A i \in 1..Len(fs) :
                    fs[i].type \in {"email", "phone", "url", "address"} =>
                        Get(q.normalizedData, fs[i].key) = Get(raw, fs[i].key)
            /\ q.pc \in {"persist", "resolve", "done"}
            /\ q.pc \in {"resolve", "done"} => StepAt(q.steps, "persist") > 0
            /\ q.rows # <<>> => q.rows[1].data = raw

\* A create on people whose email canonicalizer failed was answered 201, and the
\* stored row holds the raw address.
C22_Witness ==
    \E r \in DOMAIN req :
        /\ StepAt(req[r].steps, "catch") > 0
        /\ req[r].in.kind = "create" /\ req[r].in.data = D4
        /\ req[r].pc = "done" /\ req[r].res.status = 201
        /\ \E e \in entries : e.data = D4.v /\ Get(e.data, KEm) = JStr(<<" ", "E", "@", "X", " ">>)

\* The well-formed identifiers of the model.
KnownUuids == {Uuid("a"), Uuid("b"), Uuid("1"), Uuid("2")}

UserKeysOf(typeId) ==
    {ContentFields[i].key : i \in {j \in 1..Len(ContentFields) :
        /\ ContentFields[j].content_type_id = typeId
        /\ ContentFields[j].type = "relation_user"}}

\* The well-formed identifiers an entry holds under its type's relation_user
\* fields, as a scalar or as an element of an array.
Referenced(e) ==
    {id \in KnownUuids :
        \E k \in UserKeysOf(e.content_type_id) \cap DOMAIN e.data :
            \/ e.data[k] = JStr(id)
            \/ /\ e.data[k].t = "arr"
               /\ \E i \in 1..Len(e.data[k].v) : e.data[k].v[i] = JStr(id)}

\* C23: a list or detail call issues at most one query on the user store, and the
\* query of a call that answers its entries asks for exactly the identifiers those
\* entries reference (none referenced, none issued).
C23_OneBatchedLookup ==
    readResp.done =>
        /\ Len(readResp.queries) <= 1
        /\ readResp.status = 200 =>
             LET all == UNION {Referenced(readResp.body[i].entry) :
                                  i \in 1..Len(readResp.body)}
             IN IF all = {} THEN readResp.queries = <<>>
                ELSE readResp.queries = <<all>>

\* A list of people returned the entry referencing user a and the entry whose array
\* references user b, after one query for both.
C23_Witness ==
    /\ readResp.done /\ readResp.route = "list" /\ readResp.status = 200
    /\ Len(readResp.body) >= 2
    /\ readResp.queries = <<{Uuid("a"), Uuid("b")}>>

(***************************************************************************)
(* getEffectiveEditorCoreForType on its own (SpecView): the query is run   *)
(* for content type ct1 on a table of views drawn from a pool.             *)
(***************************************************************************)
RoleAdmin == <<"A", "D", "M", "I", "N">>
RoleEditor == <<"E", "D", "I", "T", "O", "R">>

PoolView(id, typeId, roles, isDefault, updated, created) ==
    [id |-> id, content_type_id |-> typeId, is_default |-> isDefault,
     updated_at |-> updated, created_at |-> created,
     config |-> [default_roles |-> roles,
                 core |-> [EmptyCore EXCEPT !.titleTemplate = JNum(id)]]]

ViewPool ==
    { PoolView(1, "ct1", {RoleAdmin}, FALSE, <<2>>, <<1>>),
      PoolView(2, "ct1", {}, TRUE, <<>>, <<1>>),
      PoolView(3, "ct1", {}, FALSE, <<3>>, <<1>>),
      PoolView(4, "ct1", {}, FALSE, <<3>>, <<2>>),
      PoolView(5, "ct1", {}, FALSE, <<>>, <<>>),
      PoolView(6, "ct1", {RoleEditor, RoleAdmin}, TRUE, <<>>, <<>>),
      PoolView(7, "ct1", {}, FALSE, <<>>, <<>>),
      PoolView(8, "ct2", {RoleAdmin, RoleEditor}, TRUE, <<9>>, <<9>>) }

ViewInit ==
    /\ \E vs \in SUBSET ViewPool, role \in {RoleAdmin, RoleEditor} :
            viewIn = [views |-> vs, role |-> role]
    /\ viewOut = [done |-> FALSE]
    /\ RepIdle /\ VisIdle /\ LayIdle /\ SrvIdle /\ TitleIdle /\ NormIdle /\ DelIdle /\ PickIdle

selectView ==
    /\ ~viewOut.done
    /\ \E queryOk \in BOOLEAN :
        viewOut' = [done |-> TRUE, ok |-> queryOk,
                    rows |-> IF queryOk
                             THEN EffectiveViewRows(viewIn.views, "ct1", viewIn.role)
                             ELSE {},
                    core |-> EffectiveCoreIn(viewIn.views, "ct1", viewIn.role, queryOk)]
    /\ UNCHANGED <<viewIn, nonViewVars>>

ViewNext == selectView

SpecView == ViewInit /\ [][ViewNext]_vars

Candidates == {v \in viewIn.views : v.content_type_id = "ct1"}
RoleMatches == {v \in Candidates : viewIn.role \in v.config.default_roles}
Defaults == {v \in Candidates : v.is_default}

\* a is at least as recent as b: a missing timestamp is older than any timestamp.
AsRecent(a, b) == b = <<>> \/ (a # <<>> /\ a[1] >= b[1])

\* C24: the view the query returns for a content type and role is one whose
\* default-role set contains the role when there is one; else one flagged default
\* when there is one; else the most recently updated, among equals the most
\* recently created, among equals the one with the lowest id.
C24_ViewPriority ==
    (viewOut.done /\ viewOut.ok) =>
        /\ Candidates = {} => viewOut.rows = {}
        /\ Candidates # {} =>
            /\ Cardinality(viewOut.rows) = 1
            /\ \A v \in viewOut.rows :
                /\ v \in Candidates
                /\ viewOut.core = v.config.core
                /\ RoleMatches # {} => v \in RoleMatches
                /\ (RoleMatches = {} /\ Defaults # {}) => v \in Defaults
                /\ (RoleMatches = {} /\ Defaults = {}) =>
                     \A w \in Candidates :
                        /\ AsRecent(v.updated_at, w.updated_at)
                        /\ w.updated_at = v.updated_at =>
                              /\ AsRecent(v.created_at, w.created_at)
                              /\ w.created_at = v.created_at => v.id <= w.id

\* An editor asked; view 1 matches the admin role only, view 2 is the default, and
\* the default was returned although view 3 was updated more recently.
C24_Witness ==
    /\ viewOut.done /\ viewOut.ok
    /\ viewIn.role = RoleEditor
    /\ \E v1, v2, v3 \in viewIn.views : v1.id = 1 /\ v2.id = 2 /\ v3.id = 3
    /\ \A v \in viewIn.views : v.id \in {1, 2, 3, 8}
    /\ \E v \in viewOut.rows : v.id = 2

(***************************************************************************)
(* API server: the DELETE routes (SpecDelete).  A handler's statements run *)
(* one at a time, each its own transaction; two requests interleave        *)
(* between them.  A request records what its statements removed.           *)
(***************************************************************************)
\* A statement that leaves the version history alone.
MutVersionsWithout(vs, entryId) == vs

\* DELETE FROM entry_versions WHERE entry_id = $1
VersionsWithout(vs, entryId) == {v \in vs : v.entry_id # entryId}

\* DELETE FROM entries WHERE id = $1 [AND content_type_id = $2] RETURNING id;
\* typeId = "" stands for the statement without the content type.
EntriesToDelete(es, entryId, typeId) ==
    {e \in es : e.id = entryId /\ (typeId = "" \/ e.content_type_id = typeId)}

NewDel(route, typeSlug, id) ==
    [pc |-> "received", route |-> route, typeSlug |-> typeSlug, id |-> id,
     typeId |-> "", entryId |-> <<>>, removedVersions |-> {}, removedEntries |-> {},
     status |-> 0]

DelAnswer(q, status) == [q EXCEPT !.pc = "done", !.status = status]

\* The statements before the first DELETE: the content type of the slug and, for
\* an id that is no UUID, the entry of that slug in the type.
delLookup ==
  \E r \in DOMAIN delReq :
    /\ delReq[r].pc = "received"
    /\ LET q == delReq[r] IN
       delReq' = [delReq EXCEPT ![r] =
          IF q.route = "plain" THEN [q EXCEPT !.pc = "versions", !.entryId = q.id]
          ELSE IF TypeRows(q.typeSlug) = {} THEN DelAnswer(q, 404)
          ELSE LET typeId == (CHOOSE ct \in TypeRows(q.typeSlug) : TRUE).id
                   entryRows == {e \in entries :
                                    e.slug = q.id /\ e.content_type_id = typeId}
               IN IF isUuid(q.id)
                  THEN [q EXCEPT !.pc = "versions", !.typeId = typeId, !.entryId = q.id]
                  ELSE IF entryRows = {} THEN DelAnswer(q, 404)
                  ELSE [q EXCEPT !.pc = "versions", !.typeId = typeId,
                                 !.entryId = (CHOOSE e \in entryRows : TRUE).id]]
    /\ UNCHANGED <<entries, versions, req, readResp, nonSrvDelVars>>

\* DELETE FROM entry_versions WHERE entry_id = $1
delVersions ==
  \E r \in DOMAIN delReq :
    /\ delReq[r].pc = "versions"
    /\ LET q == delReq[r]
           kept == VersionsWithout(versions, q.entryId)
       IN /\ versions' = kept
          /\ delReq' = [delReq EXCEPT ![r] =
                [q EXCEPT !.pc = "entries", !.removedVersions = versions \ kept]]
    /\ UNCHANGED <<entries, req, readResp, nonSrvDelVars>>

\* DELETE FROM entries ... RETURNING id, and the answer.
delEntry ==
  \E r \in DOMAIN delReq :
    /\ delReq[r].pc = "entries"
    /\ LET q == delReq[r]
           gone == EntriesToDelete(entries, q.entryId, q.typeId)
       IN /\ entries' = entries \ gone
          /\ delReq' = [delReq EXCEPT ![r] =
                DelAnswer([q EXCEPT !.removedEntries = gone],
                          IF gone = {} THEN 404 ELSE 200)]
    /\ UNCHANGED <<versions, req, readResp, nonSrvDelVars>>

DeleteNext == delLookup \/ delVersions \/ delEntry

Version(n, entryId) == [id |-> n, entry_id |-> entryId]

DelRequests ==
    {NewDel("typed", ts, id) : ts \in {"people", "notes", "zz"},
                               id \in {Uuid("1"), Uuid("4"), <<"s">>, <<"y">>}}
        \cup {NewDel("plain", "", id) : id \in {Uuid("1"), Uuid("4"), Uuid("9")}}

\* Two delete requests arrive at a server whose tables hold entries of both
\* content types and version records of entries that exist.
DeleteInit ==
    /\ entries \in {{E1, E4}, {E1, E2, E4}, {E4}}
    /\ versions \in SUBSET {Version(1, Uuid("1")), Version(2, Uuid("1")),
                             Version(3, Uuid("4"))}
    /\ \A v \in versions : \E e \in entries : e.id = v.entry_id
    /\ delReq \in [{"r1", "r2"} -> DelRequests]
    /\ req = <<>> /\ readResp = NoRead
    /\ RepIdle /\ VisIdle /\ LayIdle /\ TitleIdle /\ NormIdle /\ ViewIdle /\ PickIdle

SpecDelete == DeleteInit /\ [][DeleteNext]_vars

\* C25: once a delete request has answered ok, the store holds neither the entry
\* it deleted nor a version record referring to that entry.
C25_DeleteCascades ==
    \A r \in DOMAIN delReq :
        (delReq[r].pc = "done" /\ delReq[r].status = 200) =>
            /\ \A e \in entries : e.id # delReq[r].entryId
            /\ \A v \in versions : v.entry_id # delReq[r].entryId

\* The entry of slug s in people, which had two version records, was deleted by
\* slug; the entry and both records are gone.
C25_Witness ==
    \E r \in DOMAIN delReq :
        /\ delReq[r].pc = "done" /\ delReq[r].status = 200
        /\ delReq[r].route = "typed" /\ delReq[r].id = <<"s">>
        /\ delReq[r].removedEntries = {E1}
        /\ Cardinality(delReq[r].removedVersions) = 2
        /\ E1 \notin entries

\* C27: a delete request that answers 404 has removed nothing: no entry and no
\* version record, whichever content type the entry of that id belongs to.
C27_NotFoundChangesNothing ==
    \A r \in DOMAIN delReq :
        (delReq[r].pc = "done" /\ delReq[r].status = 404) =>
            /\ delReq[r].removedEntries = {}
            /\ delReq[r].removedVersions = {}

(***************************************************************************)
(* The write routes on requests that vary title, slug and status           *)
(* (SpecStatus): one create or update arrives at a table that may hold a   *)
(* published entry.                                                        *)
(***************************************************************************)
KPublished == <<"p", "u", "b", "l", "i", "s", "h", "e", "d">>
KArchived == <<"a", "r", "c", "h", "i", "v", "e", "d">>

StatusBodies ==
    [role : {JUndef},
     title : {JStr(<<"X">>), JStr(<<"!">>), JStr(<<" ", "-", " ", "A", "b">>)},
     slug : {JUndef, JStr(<<"s">>), JStr(<<" ">>)},
     status : {JUndef, JNull, JStr(<<" ">>), JStr(KPublished), JStr(<<" ", "a", "r", "c", "h", "i", "v", "e", "d", " ">>),
               JStr(<<"z", "z">>)},
     data : {JUndef}]

E1Published == [E1 EXCEPT !.status = KPublished]

StatusInit ==
    /\ entries \in {{}, {E1Published}, {E1Published, E4}}
    /\ req \in [{"r1"} -> {NewReq(in) : in \in Requests({"people", "notes"}, StatusBodies)}]
    /\ readResp = NoRead
    /\ versions = {} /\ delReq = <<>>
    /\ RepIdle /\ VisIdle /\ LayIdle /\ TitleIdle /\ NormIdle /\ ViewIdle /\ PickIdle

SpecStatus == StatusInit /\ [][WriteNext]_vars

\* The rows the write requests have inserted or updated.
Written == {req[r].rows[1] : r \in {x \in DOMAIN req : req[x].rows # <<>>}}

\* C26: every entry a create or update has persisted has a status among draft,
\* published and archived.
C26_StatusInEnum ==
    \A row \in Written : row.status \in {KDraft, KPublished, KArchived}

\* C28: every entry a create or update has persisted has a non-empty slug,
\* whatever the accepted title, the slug of the request and
\* autoSlugFromTitleIfEmpty.
C28_SlugNonEmpty ==
    \A row \in Written : row.slug # <<>>

\* C29: an update whose status is absent or blank stores the status draft,
\* whatever the status of the entry was; title, slug and data are those of the
\* request.
C29_UpdateDefaultsToDraft ==
    \A r \in DOMAIN req :
        LET q == req[r] IN
        (q.in.kind = "update" /\ q.rows # <<>>
            /\ (q.in.status.t # "str" \/ Trim(q.in.status.v) = <<>>)) =>
                /\ q.rows[1].status = KDraft
                /\ q.rows[1] \in entries
                /\ q.rows[1].title = q.safeTitle
                /\ q.rows[1].slug = q.finalSlug
                /\ q.rows[1].data = q.normalizedData

\* The published entry of people was updated by a request without status and is
\* now a draft.
C29_Witness ==
    \E r \in DOMAIN req :
        /\ req[r].in.kind = "update" /\ req[r].in.status = JUndef
        /\ E1Published \notin entries
        /\ req[r].rows # <<>> /\ req[r].rows[1].id = E1.id
        /\ req[r].rows[1].status = KDraft
        /\ req[r].pc = "done"

(***************************************************************************)
(* UserRelationField: the debounced search effect (SpecPicker).  Every run *)
(* of the effect has its own closure: the inputs it was scheduled for, its *)
(* alive flag and its timer.  A change of q, open or a filter runs the     *)
(* cleanup of the current run and starts the next.                         *)
(***************************************************************************)
MaxSearches == 3

PickerInputs == [q : {<<>>, <<"a">>}, open : BOOLEAN, onlyActive : BOOLEAN]

\* phase: "pending" (timer set), "cleared" (timer cleared), "inflight" (awaiting
\* api.get), "done".  sets counts the state updates the run has made.
NewSearch(in) == [in |-> in, alive |-> TRUE, phase |-> "pending", sets |-> 0]

\* The list a search for these inputs answers.
UsersFor(in) == <<[q |-> in.q, onlyActive |-> in.onlyActive]>>

PickerInit ==
    /\ \E oa \in BOOLEAN :
        /\ picker = [mounted |-> TRUE, in |-> [q |-> <<>>, open |-> FALSE, onlyActive |-> oa]]
        /\ searches = <<NewSearch([q |-> <<>>, open |-> FALSE, onlyActive |-> oa])>>
    /\ shown = [busy |-> FALSE, results |-> <<>>, err |-> <<>>]
    /\ SrvIdle
    /\ RepIdle /\ VisIdle /\ LayIdle /\ TitleIdle /\ NormIdle /\ ViewIdle /\ DelIdle

\* A cleanup that clears the timer but leaves alive set.
MutCleanup(s) ==
    [s EXCEPT !.phase = IF s.phase = "pending" THEN "cleared" ELSE s.phase]

\* The cleanup of a run: alive = false; clearTimeout(handle).
Cleanup(s) ==
    [s EXCEPT !.alive = FALSE,
              !.phase = IF s.phase = "pending" THEN "cleared" ELSE s.phase]

Current == Len(searches)

\* setQ, setOpen or a changed filter: the effect's dependencies differ, so the
\* cleanup of the current run is called and the effect runs again.
changeInputs ==
    /\ picker.mounted
    /\ Len(searches) < MaxSearches
    /\ \E in \in PickerInputs \ {picker.in} :
        /\ picker' = [picker EXCEPT !.in = in]
        /\ searches' = Append([searches EXCEPT ![Current] = Cleanup(searches[Current])],
                              NewSearch(in))
    /\ UNCHANGED <<shown, nonPickVars>>

unmount ==
    /\ picker.mounted
    /\ picker' = [picker EXCEPT !.mounted = FALSE]
    /\ searches' = [searches EXCEPT ![Current] = Cleanup(searches[Current])]
    /\ UNCHANGED <<shown, nonPickVars>>

\* The timer of a run fires after 200 ms: nothing when the picker is closed, else
\* setBusy(true), setErr("") and the request.
timerFires ==
    \E g \in DOMAIN searches :
        /\ searches[g].phase = "pending"
        /\ IF ~searches[g].in.open
           THEN /\ searches' = [searches EXCEPT ![g].phase = "done"]
                /\ shown' = shown
           ELSE /\ searches' = [searches EXCEPT ![g].phase = "inflight",
                                               ![g].sets = @ + 1]
                /\ shown' = [shown EXCEPT !.busy = TRUE, !.err = <<>>]
        /\ UNCHANGED <<picker, nonPickVars>>

\* api.get resolves: setResults(list) and setBusy(false) when the run is alive.
searchResolves ==
    \E g \in DOMAIN searches :
        /\ searches[g].phase = "inflight"
        /\ IF searches[g].alive
           THEN /\ searches' = [searches EXCEPT ![g].phase = "done", ![g].sets = @ + 1]
                /\ shown' = [shown EXCEPT !.results = UsersFor(searches[g].in),
                                          !.busy = FALSE]
           ELSE /\ searches' = [searches EXCEPT ![g].phase = "done"]
                /\ shown' = shown
        /\ UNCHANGED <<picker, nonPickVars>>

\* api.get rejects: setErr(message), setResults([]) and setBusy(false) when the
\* run is alive.
searchRejects ==
    \E g \in DOMAIN searches :
        /\ searches[g].phase = "inflight"
        /\ IF searches[g].alive
           THEN /\ searches' = [searches EXCEPT ![g].phase = "done", ![g].sets = @ + 1]
                /\ shown' = [results |-> <<>>, busy |-> FALSE,
                             err |-> <<"F", "a", "i", "l", "e", "d">>]
           ELSE /\ searches' = [searches EXCEPT ![g].phase = "done"]
                /\ shown' = shown
        /\ UNCHANGED <<picker, nonPickVars>>

PickerNext == changeInputs \/ unmount \/ timerFires \/ searchResolves \/ searchRejects

SpecPicker == PickerInit /\ [][PickerNext]_vars

\* C30: busy, results and err are updated only by the run of the effect that was
\* scheduled for the current inputs of a mounted picker: a run whose inputs have
\* changed since, or whose component is unmounted, updates nothing, whether its
\* timer was pending or its request in flight.
C30_OnlyLatestSearchUpdates ==
    [][ /\ \A g \in DOMAIN searches :
            searches'[g].sets # searches[g].sets =>
                /\ g = Current /\ picker.mounted
                /\ searches[g].in = picker.in
        /\ shown' # shown =>
            \E g \in DOMAIN searches : searches'[g].sets # searches[g].sets
      ]_vars

\* The search text changed while the second search was in flight; it has
\* finished without a further update and the results are those of the third.
C30_Witness ==
    /\ Len(searches) = 3
    /\ searches[2].phase = "done" /\ searches[2].sets = 1 /\ ~searches[2].alive
    /\ searches[3].phase = "done" /\ searches[3].sets = 2
    /\ shown.results = UsersFor(searches[3].in)
    /\ searches[2].in.q # searches[3].in.q

====
